---- MODULE Spec2Model ----
(***************************************************************************)
(* PhotoSync: the discovery orchestrator (cli.py, discover_photos), the    *)
(* Google Photos adapter's lazy sequence (google_photos.py) and the part   *)
(* of the metadata repository it writes through (photo_manager.py,         *)
(* photo.py), as one state machine.                                        *)
(*                                                                         *)
(* Time is an integer count of ticks; TicksPerDay ticks make one calendar  *)
(* day, so that the date arithmetic of --since and of the Google date      *)
(* filter is done on day boundaries as in the code.                        *)
(***************************************************************************)
EXTENDS Integers, Sequences, FiniteSets, TLC

(* ------------------------------ bounds -------------------------------- *)
MaxTime == 1
MaxRuns == 2
MaxPhotos == 2
MaxServices == 2
TicksPerDay == 2
DaysPerMonth == 2
MaxOps == 4
MaxConflicts == 2

(* ----------------------------- constants ------------------------------ *)
DaysPerWeek == 7
MonthsPerYear == 12

GooglePhotos == "google-photos"
Flickr == "flickr"
OtherService == "unknown_service"
ServiceNames == {GooglePhotos, OtherService, Flickr}

\* The registry the orchestrator's loop looks adapters up in.  The source
\* registers GooglePhotosService only; the loop is written against any
\* BaseServiceAdapter, so the registry here also holds one adapter that is
\* known only through the abstract base class (service_name left at its
\* default).  Flickr is configured in the template but has no adapter.
SERVICE_ADAPTERS == {GooglePhotos, OtherService}

(* --------------------- optional values and timestamps ------------------ *)
\* A JSON/argument value that is a timestamp string, absent, or a string
\* that is not a timestamp.
None == [kind |-> "none", t |-> 0]
IsoString(t) == [kind |-> "iso", t |-> t]
Garbage == [kind |-> "garbage", t |-> 0]
\* An in-memory datetime (Optional[datetime]).
NoDatetime == [kind |-> "none", t |-> 0]
Datetime(t) == [kind |-> "datetime", t |-> t]

\* datetime.isoformat()
isoformat(d) == IsoString(d.t)

\* datetime.fromisoformat(): an [ok, value] pair, ok = FALSE for ValueError.
fromisoformat(s) ==
    IF s.kind = "iso"
    THEN [ok |-> TRUE, value |-> Datetime(s.t)]
    ELSE [ok |-> FALSE, value |-> NoDatetime]

\* now.replace(hour=0, minute=0, second=0, microsecond=0)
Midnight(t) == t - (t % TicksPerDay)

(* --------------------------- command line ------------------------------ *)
NoService == ""
SinceAbsent == [kind |-> "absent", t |-> 0]
SinceKeyword(k) == [kind |-> k, t |-> 0]
SinceDate(t) == [kind |-> "date", t |-> t]
SinceGarbage == [kind |-> "garbage", t |-> 0]

SinceArgs ==
    {SinceAbsent, SinceGarbage, SinceKeyword("yesterday"), SinceDate(0)}

\* An argument that cannot be parsed is read as "today".
ParseSinceArgDefaultsToday(since_str, now) ==
    CASE since_str.kind = "absent" -> NoDatetime
      [] since_str.kind = "today" -> Datetime(Midnight(now))
      [] since_str.kind = "yesterday" -> Datetime(Midnight(now - TicksPerDay))
      [] since_str.kind = "last-week" ->
            Datetime(Midnight(now - DaysPerWeek * TicksPerDay))
      [] since_str.kind = "date" -> Datetime(since_str.t)
      [] OTHER -> Datetime(Midnight(now))

\* PhotoSyncCLI._parse_since_arg: the parsed datetime, NoDatetime for an
\* absent or unparseable argument.
parse_since_arg(since_str, now) ==
    CASE since_str.kind = "absent" -> NoDatetime
      [] since_str.kind = "today" -> Datetime(Midnight(now))
      [] since_str.kind = "yesterday" -> Datetime(Midnight(now - TicksPerDay))
      [] since_str.kind = "last-week" ->
            Datetime(Midnight(now - DaysPerWeek * TicksPerDay))
      [] since_str.kind = "date" -> Datetime(since_str.t)
      [] OTHER -> NoDatetime

(* ---------------------------- configuration ---------------------------- *)
\* One entry of config/services.json; credentials says whether client_id and
\* client_secret are both set.
ConfigEntries ==
    [name : ServiceNames, enabled : BOOLEAN, credentials : BOOLEAN]

Names(cfg) == {cfg[i].name : i \in 1..Len(cfg)}

\* services.json contents: the entries in file order, names unique.  The
\* credentials of an entry are only read when its adapter is constructed, so
\* they are left out (TRUE) where no adapter is constructed from the entry;
\* the file order is only read for the enabled entries, so the entries that
\* are not enabled are listed after them.
ServiceConfigs ==
    {cfg \in UNION {[1..n -> ConfigEntries] : n \in 0..MaxServices} :
        /\ \A i, j \in 1..Len(cfg) : cfg[i].name = cfg[j].name => i = j
        /\ \A i \in 1..Len(cfg) :
              (cfg[i].name # GooglePhotos \/ ~cfg[i].enabled) =>
                  cfg[i].credentials
        /\ \A i, j \in 1..Len(cfg) :
              (i < j /\ cfg[j].enabled) => cfg[i].enabled}

ConfigOf(cfg, name) == CHOOSE e \in {cfg[i] : i \in 1..Len(cfg)} : e.name = name

IsEnabled(cfg, name) == name \in Names(cfg) /\ ConfigOf(cfg, name).enabled

\* [name for name, config in services_config.items() if config.get("enabled")]
EnabledServices(cfg) ==
    LET keep(e) == e.enabled
        sel == SelectSeq(cfg, keep)
    IN  [i \in 1..Len(sel) |-> sel[i].name]

(* ------------------------------ sync-state ----------------------------- *)
OtherKeys == {"last_sync", "total_photos", "pending_conflicts"}

NoEntries == [s \in {} |-> [last_discovery |-> None, last_discovered_count |-> 0]]

\* The parsed sync-state document.  other_keys are the keys the orchestrator
\* never touches; their values stay as written by init.
EmptySyncState ==
    [services |-> NoEntries, last_discovery |-> None, other_keys |-> {}]

\* sync-state.json as written by init.
InitialSyncState ==
    [services |-> NoEntries, last_discovery |-> None, other_keys |-> OtherKeys]

\* A sync-state whose google-photos checkpoint is not a timestamp.
DamagedSyncState ==
    [services |->
        (GooglePhotos :> [last_discovery |-> Garbage, last_discovered_count |-> 0]),
     last_discovery |-> None, other_keys |-> OtherKeys]

\* A sync-state left by an earlier run at time 0 that found nothing.
CheckpointedSyncState ==
    [services |->
        (GooglePhotos :> [last_discovery |-> IsoString(0),
                          last_discovered_count |-> 0])
        @@ (OtherService :> [last_discovery |-> IsoString(0),
                             last_discovered_count |-> 0]),
     last_discovery |-> IsoString(0), other_keys |-> OtherKeys]

SyncFiles ==
    {[status |-> "ok", data |-> InitialSyncState],
     [status |-> "ok", data |-> CheckpointedSyncState],
     [status |-> "ok", data |-> DamagedSyncState],
     [status |-> "missing", data |-> EmptySyncState],
     [status |-> "corrupt", data |-> EmptySyncState]}

\* sync_state.get("services", {}).get(service_name, {}).get("last_discovery")
LastDiscoveryStr(state, service) ==
    IF service \in DOMAIN state.services
    THEN state.services[service].last_discovery
    ELSE None

(* --------------------------- remote library ---------------------------- *)
\* The media items the remote services hold: a service-native id and an
\* optional creation time (mediaMetadata.creationTime).
RemoteItems ==
    << [id |-> "item-a", creationTime |-> Datetime(0)],
       [id |-> "item-b", creationTime |-> NoDatetime] >>

\* What the Google Photos API returns: mediaItems.list without a since,
\* mediaItems.search with the date range [day of since, day of now] otherwise.
MediaItemsFor(last_sync_time, now) ==
    LET inRange(item) ==
            /\ item.creationTime.kind = "datetime"
            /\ Midnight(last_sync_time.t) <= Midnight(item.creationTime.t)
            /\ Midnight(item.creationTime.t) <= Midnight(now)
    IN  IF last_sync_time.kind = "none"
        THEN RemoteItems
        ELSE SelectSeq(RemoteItems, inRange)

Prefixes(seq) == {SubSeq(seq, 1, k) : k \in 0..Len(seq)}

Endings ==
    {"no_credentials", "credentials_raise", "http_error", "parse_error",
     "exhausted", "raise"}

\* GooglePhotosService.discover_photos as a lazy sequence: the items it
\* yields and how it ends.
\*   no_credentials     _get_credentials returned None
\*   credentials_raise  _get_credentials raised (it runs outside the try)
\*   http_error         HttpError on a page request
\*   parse_error        an exception in _parse_item_to_photo (inside the try)
\*   exhausted          no nextPageToken
GoogleSequences(last_sync_time, now) ==
    LET avail == MediaItemsFor(last_sync_time, now)
    IN  {[items |-> <<>>, ending |-> e] :
            e \in {"no_credentials", "credentials_raise"}}
        \cup {[items |-> pre, ending |-> "http_error"] : pre \in Prefixes(avail)}
        \cup {[items |-> pre, ending |-> "parse_error"] :
                pre \in Prefixes(avail) \ {avail}}
        \cup {[items |-> avail, ending |-> "exhausted"]}

\* BaseServiceAdapter.discover_photos of any other adapter: some items, then
\* the end of the sequence or an exception.
BaseSequences(last_sync_time, now) ==
    {[items |-> pre, ending |-> e] :
        pre \in Prefixes(RemoteItems), e \in {"exhausted", "raise"}}

AdapterSequences(service, last_sync_time, now) ==
    IF service = GooglePhotos
    THEN GoogleSequences(last_sync_time, now)
    ELSE BaseSequences(last_sync_time, now)

\* Whether the way the sequence ends reaches the caller's for loop as an
\* exception: discover_photos catches HttpError and Exception itself and
\* returns without credentials.
RaisesToCaller(ending) == ending \in {"credentials_raise", "raise"}

\* Adapter construction: GooglePhotosService.__init__ raises ValueError
\* without client_id or client_secret; BaseServiceAdapter.__init__ does not.
ConstructorRaises(cfg, service) ==
    service = GooglePhotos /\ ~ConfigOf(cfg, service).credentials

(* ------------------------------- photos -------------------------------- *)
\* An Optional[...] attribute other than a datetime is the empty set for
\* None and the set of its value otherwise; an enum member is written as its
\* value.
Absent == {}

\* ServiceInstance(id, quality, last_sync, url)
ServiceInstance(id, last_sync, url) ==
    [id |-> id, quality |-> "original", last_sync |-> last_sync, url |-> url]

\* PhotoVisibility(): canonical PRIVATE, nothing observed, no discrepancies.
VisibilityLevels == {"private", "friends", "public"}

NoLevels == [s \in {} |-> "private"]

PhotoVisibility ==
    [canonical |-> "private", per_service |-> NoLevels, discrepancies |-> <<>>]

\* VisibilityDiscrepancy(service, current, canonical)
VisibilityDiscrepancy(service, current, canonical) ==
    [service |-> service, current |-> current, canonical |-> canonical]

\* The discrepancies of the given services, one after the other.
RECURSIVE DiscrepanciesOf(_, _)
DiscrepanciesOf(visibility, services) ==
    IF services = {}
    THEN <<>>
    ELSE LET s == CHOOSE x \in services : TRUE
         IN  (IF visibility.per_service[s] # visibility.canonical
              THEN <<VisibilityDiscrepancy(s, visibility.per_service[s],
                                           visibility.canonical)>>
              ELSE <<>>)
             \o DiscrepanciesOf(visibility, services \ {s})

\* A computation that adds its findings to the list it finds.
ComputeDiscrepanciesAppend(visibility) ==
    [visibility EXCEPT
        !.discrepancies =
            @ \o DiscrepanciesOf(visibility, DOMAIN visibility.per_service)]

\* The visibility discrepancy computation: compares every per_service entry
\* with canonical and materializes the mismatches as the discrepancies list.
compute_discrepancies(visibility) ==
    [visibility EXCEPT
        !.discrepancies =
            DiscrepanciesOf(visibility, DOMAIN visibility.per_service)]

\* _parse_item_to_photo: a new Photo with a fresh photo_id.  conforms says
\* whether the serialized photo satisfies the metadata schema.
ParseItemToPhoto(service, item, id, now, conforms) ==
    [photo_id |-> id,
     content_hash |-> "",
     canonical_source |-> <<service, item.id>>,
     source_of_truth_path |-> Absent,
     instances |-> (service :> ServiceInstance(item.id, NoDatetime, Absent)),
     taken_date |-> item.creationTime,
     filename |-> Absent,
     location |-> Absent,
     camera_info |-> Absent,
     visibility |-> PhotoVisibility,
     processing_state |-> "discovered",
     created_at |-> now,
     updated_at |-> now,
     conflicts |-> <<>>,
     conforms |-> conforms]

\* uuid.uuid4() in Photo.__init__ when no photo_id is given: an id that no
\* other photo carries.
FreshUuid(photo_id) == 0 - 1 - photo_id

\* The objects of the metadata and the JSON objects written for them.
Location(lat, address) ==
    [class |-> "Location", lat |-> lat, lng |-> 0, address |-> address]

CameraInfo(make) ==
    [class |-> "CameraInfo", make |-> make, model |-> Absent]

\* taken_date is written as a date, without the time of day.
ToDictDateOnly(photo) ==
    [photo EXCEPT
        !.instances =
            [s \in DOMAIN photo.instances |->
                [photo.instances[s] EXCEPT
                    !.last_sync = IF photo.instances[s].last_sync.kind
                                        = "datetime"
                                  THEN isoformat(photo.instances[s].last_sync)
                                  ELSE None]],
        !.taken_date = IF photo.taken_date.kind = "datetime"
                       THEN isoformat(Datetime(Midnight(photo.taken_date.t)))
                       ELSE None,
        !.location = {[lat |-> l.lat, lng |-> l.lng, address |-> l.address] :
                        l \in photo.location},
        !.camera_info = {[make |-> c.make, model |-> c.model] :
                            c \in photo.camera_info},
        !.created_at = isoformat(Datetime(photo.created_at)),
        !.updated_at = isoformat(Datetime(photo.updated_at))]

\* Photo.to_dict: the JSON object written to the photo's file; timestamps as
\* ISO strings, an absent taken_date as null.
to_dict(photo) ==
    [photo EXCEPT
        !.instances =
            [s \in DOMAIN photo.instances |->
                [photo.instances[s] EXCEPT
                    !.last_sync = IF photo.instances[s].last_sync.kind
                                        = "datetime"
                                  THEN isoformat(photo.instances[s].last_sync)
                                  ELSE None]],
        !.taken_date = IF photo.taken_date.kind = "datetime"
                       THEN isoformat(photo.taken_date)
                       ELSE None,
        !.location = {[lat |-> l.lat, lng |-> l.lng, address |-> l.address] :
                        l \in photo.location},
        !.camera_info = {[make |-> c.make, model |-> c.model] :
                            c \in photo.camera_info},
        !.created_at = isoformat(Datetime(photo.created_at)),
        !.updated_at = isoformat(Datetime(photo.updated_at))]

\* The photo_id of the file is not taken over: every load makes a new one.
FromDictNewId(data) ==
    [data EXCEPT
        !.photo_id = FreshUuid(data.photo_id),
        !.instances =
            [s \in DOMAIN data.instances |->
                [data.instances[s] EXCEPT
                    !.last_sync = IF data.instances[s].last_sync.kind # "none"
                                  THEN fromisoformat(
                                           data.instances[s].last_sync).value
                                  ELSE NoDatetime]],
        !.taken_date = IF data.taken_date.kind # "none"
                       THEN fromisoformat(data.taken_date).value
                       ELSE NoDatetime,
        !.location = {[class |-> "Location", lat |-> d.lat, lng |-> d.lng,
                       address |-> d.address] : d \in data.location},
        !.camera_info = {[class |-> "CameraInfo", make |-> d.make,
                          model |-> d.model] : d \in data.camera_info},
        !.created_at = fromisoformat(data.created_at).value.t,
        !.updated_at = fromisoformat(data.updated_at).value.t]

\* Photo.from_dict: the Photo built from a JSON object.
from_dict(data) ==
    [data EXCEPT
        !.photo_id = IF data.photo_id # 0
                     THEN data.photo_id
                     ELSE FreshUuid(data.photo_id),
        !.instances =
            [s \in DOMAIN data.instances |->
                [data.instances[s] EXCEPT
                    !.last_sync = IF data.instances[s].last_sync.kind # "none"
                                  THEN fromisoformat(
                                           data.instances[s].last_sync).value
                                  ELSE NoDatetime]],
        !.taken_date = IF data.taken_date.kind # "none"
                       THEN fromisoformat(data.taken_date).value
                       ELSE NoDatetime,
        !.location = {[class |-> "Location", lat |-> d.lat, lng |-> d.lng,
                       address |-> d.address] : d \in data.location},
        !.camera_info = {[class |-> "CameraInfo", make |-> d.make,
                          model |-> d.model] : d \in data.camera_info},
        !.created_at = fromisoformat(data.created_at).value.t,
        !.updated_at = fromisoformat(data.updated_at).value.t]

\* Photo.get_metadata_file_path: photos/<year>/<month>/<photo_id>.json
MonthIndex(t) == t \div (DaysPerMonth * TicksPerDay)

\* f"{month:02d}": the two digits of the month.
TwoDigits(n) == <<n \div 10, n % 10>>

\* The directory is chosen by created_at also when the photo has a
\* taken_date.
PathByCreatedAt(photo) ==
    [year |-> MonthIndex(photo.created_at) \div MonthsPerYear,
     month |-> TwoDigits((MonthIndex(photo.created_at) % MonthsPerYear) + 1),
     photo_id |-> photo.photo_id]

get_metadata_file_path(photo) ==
    LET d == IF photo.taken_date.kind = "datetime"
             THEN photo.taken_date.t
             ELSE photo.created_at
    IN  [year |-> MonthIndex(d) \div MonthsPerYear,
         month |-> TwoDigits((MonthIndex(d) % MonthsPerYear) + 1),
         photo_id |-> photo.photo_id]

\* A path under which no photo file is.
NoPath(photo_id) ==
    [year |-> 0, month |-> TwoDigits(0), photo_id |-> photo_id]

\* A missing schema is reported as a validation error.
ValidatePhotoNeedsSchema(schema, photo) ==
    IF ~schema THEN <<"No schema loaded">>
    ELSE IF photo.conforms THEN <<>> ELSE <<"ValidationError">>

\* PhotoManager.validate_photo: the list of errors.
validate_photo(schema, photo) ==
    IF ~schema THEN <<>>
    ELSE IF photo.conforms THEN <<>> ELSE <<"ValidationError">>

\* The file is written first and the photo validated afterwards.
SavePhotoWritesFirst(schema, fs, ch, photo, validate, io_error) ==
    IF io_error
    THEN [ok |-> FALSE, files |-> fs, cache |-> ch]
    ELSE IF validate /\ validate_photo(schema, photo) # <<>>
    THEN [ok |-> FALSE,
          files |-> (get_metadata_file_path(photo) :> to_dict(photo)) @@ fs,
          cache |-> ch]
    ELSE [ok |-> TRUE,
          files |-> (get_metadata_file_path(photo) :> to_dict(photo)) @@ fs,
          cache |-> (photo.photo_id :> photo) @@ ch]

\* The file is written but the cache keeps what it had.
SavePhotoNoCache(schema, fs, ch, photo, validate, io_error) ==
    IF validate /\ validate_photo(schema, photo) # <<>>
    THEN [ok |-> FALSE, files |-> fs, cache |-> ch]
    ELSE IF io_error
    THEN [ok |-> FALSE, files |-> fs, cache |-> ch]
    ELSE [ok |-> TRUE,
          files |-> (get_metadata_file_path(photo) :> to_dict(photo)) @@ fs,
          cache |-> ch]

\* The photo's file is moved: files of the same photo_id at other paths are
\* removed.
SavePhotoMovesFile(schema, fs, ch, photo, validate, io_error) ==
    IF validate /\ validate_photo(schema, photo) # <<>>
    THEN [ok |-> FALSE, files |-> fs, cache |-> ch]
    ELSE IF io_error
    THEN [ok |-> FALSE, files |-> fs, cache |-> ch]
    ELSE [ok |-> TRUE,
          files |-> (get_metadata_file_path(photo) :> to_dict(photo)) @@
                    [p \in {q \in DOMAIN fs :
                                q.photo_id # photo.photo_id} |-> fs[p]],
          cache |-> (photo.photo_id :> photo) @@ ch]

\* PhotoManager.save_photo: [ok, files, cache] after the call.  io_error says
\* that save_to_file raised before the file was created.
save_photo(schema, fs, ch, photo, validate, io_error) ==
    IF validate /\ validate_photo(schema, photo) # <<>>
    THEN [ok |-> FALSE, files |-> fs, cache |-> ch]
    ELSE IF io_error
    THEN [ok |-> FALSE, files |-> fs, cache |-> ch]
    ELSE [ok |-> TRUE,
          files |-> (get_metadata_file_path(photo) :> to_dict(photo)) @@ fs,
          cache |-> (photo.photo_id :> photo) @@ ch]

(* ----------------------------- photo entity ---------------------------- *)
\* content_hash is None until the caller sets one.
NoHash == ""

Hashes == {NoHash, "deadbeef"}

ConflictTypes == {"metadata_mismatch", "duplicate_detected"}

\* PhotoConflict(type, description, services): resolution_required defaults
\* to True.
PhotoConflict(type) == [type |-> type, resolution_required |-> TRUE]

\* Photo(content_hash=...): a fresh photo_id, no taken_date, no instances,
\* DISCOVERED, no conflicts, both timestamps now.
NewPhoto(id, content_hash, now, conforms) ==
    [photo_id |-> id,
     content_hash |-> content_hash,
     canonical_source |-> <<>>,
     source_of_truth_path |-> Absent,
     instances |-> <<>>,
     taken_date |-> NoDatetime,
     filename |-> Absent,
     location |-> Absent,
     camera_info |-> Absent,
     visibility |-> PhotoVisibility,
     processing_state |-> "discovered",
     created_at |-> now,
     updated_at |-> now,
     conflicts |-> <<>>,
     conforms |-> conforms]

\* ProcessingState, in the order of the lifecycle.
ProcessingStates == <<"discovered", "resolved", "replicated">>

\* Photo.add_service_instance
add_service_instance(photo, service_name, instance, now) ==
    [photo EXCEPT
        !.instances = (service_name :> instance) @@ @,
        !.updated_at = now]

\* Photo.remove_service_instance
remove_service_instance(photo, service_name, now) ==
    IF service_name \in DOMAIN photo.instances
    THEN [photo EXCEPT
            !.instances = [s \in DOMAIN @ \ {service_name} |-> @[s]],
            !.updated_at = now]
    ELSE photo

\* The state is stored but updated_at is left as it was.
SetProcessingStateNoRefresh(photo, state, now) ==
    [photo EXCEPT !.processing_state = state]

\* Photo.set_processing_state
set_processing_state(photo, state, now) ==
    [photo EXCEPT !.processing_state = state, !.updated_at = now]

\* Photo.add_conflict
add_conflict(photo, conflict, now) ==
    [photo EXCEPT !.conflicts = Append(@, conflict), !.updated_at = now]

\* The resolved conflict is taken out of the list.
ResolveConflictDeletes(photo, conflict_index, now) ==
    IF 0 <= conflict_index /\ conflict_index < Len(photo.conflicts)
    THEN [photo EXCEPT
            !.conflicts = SubSeq(@, 1, conflict_index) \o
                          SubSeq(@, conflict_index + 2, Len(@)),
            !.updated_at = now]
    ELSE photo

\* Photo.resolve_conflict: conflict_index counts from 0.
resolve_conflict(photo, conflict_index, now) ==
    IF 0 <= conflict_index /\ conflict_index < Len(photo.conflicts)
    THEN [photo EXCEPT
            !.conflicts[conflict_index + 1].resolution_required = FALSE,
            !.updated_at = now]
    ELSE photo

\* Only the newest conflict is looked at.
HasUnresolvedNewestOnly(photo) ==
    /\ photo.conflicts # <<>>
    /\ photo.conflicts[Len(photo.conflicts)].resolution_required

\* Photo.has_unresolved_conflicts
has_unresolved_conflicts(photo) ==
    \E i \in 1..Len(photo.conflicts) : photo.conflicts[i].resolution_required

\* photo.metadata.taken_date or photo.created_at
PhotoDate(photo) ==
    IF photo.taken_date.kind = "datetime"
    THEN photo.taken_date.t
    ELSE photo.created_at

(* ------------------------ repository: reading -------------------------- *)
\* The content of a file that Photo.load_from_file cannot read.
CorruptContent == [corrupt |-> TRUE]

Readable(content) == content # CorruptContent

\* photos_dir.rglob(f"{photo_id}.json")
PathsOf(fs, photo_id) == {p \in DOMAIN fs : p.photo_id = photo_id}

\* The files of a full scan that load, and the photo_ids they carry.
ReadablePaths(fs) == {p \in DOMAIN fs : Readable(fs[p])}

ReadableIds(fs) == {fs[p].photo_id : p \in ReadablePaths(fs)}

\* rglob fixes no order: for every photo_id, the file of that photo that a
\* full scan reads last.
ScanOrders(fs) ==
    {w \in [ReadableIds(fs) -> DOMAIN fs] :
        \A i \in ReadableIds(fs) :
            w[i] \in ReadablePaths(fs) /\ fs[w[i]].photo_id = i}

\* PhotoManager.load_photo: [found, photo, cache]; first is the first match
\* of the search when there is one.
NoPhoto == [photo_id |-> 0]

load_photo(fs, ch, photo_id, first) ==
    IF photo_id \in DOMAIN ch
    THEN [found |-> TRUE, photo |-> ch[photo_id], cache |-> ch]
    ELSE IF PathsOf(fs, photo_id) = {}
    THEN [found |-> FALSE, photo |-> NoPhoto, cache |-> ch]
    ELSE IF ~Readable(fs[first])
    THEN [found |-> FALSE, photo |-> NoPhoto, cache |-> ch]
    ELSE [found |-> TRUE, photo |-> from_dict(fs[first]),
          cache |-> (photo_id :> from_dict(fs[first])) @@ ch]

\* if use_cache and self._photo_cache
CacheHit(ch, use_cache) == use_cache /\ DOMAIN ch # {}

\* The scan stops at the first file that does not load.
LoadAllAbortsOnCorrupt(fs, ch, use_cache, last_read) ==
    IF CacheHit(ch, use_cache)
    THEN [photos |-> {ch[i] : i \in DOMAIN ch}, cache |-> ch]
    ELSE IF ReadablePaths(fs) # DOMAIN fs
    THEN [photos |-> {}, cache |-> [i \in {} |-> NoPhoto]]
    ELSE [photos |-> {from_dict(fs[p]) : p \in ReadablePaths(fs)},
          cache |-> [i \in ReadableIds(fs) |-> from_dict(fs[last_read[i]])]]

\* The cache is filled by the scan but the old entries are kept.
LoadAllKeepsCache(fs, ch, use_cache, last_read) ==
    IF CacheHit(ch, use_cache)
    THEN [photos |-> {ch[i] : i \in DOMAIN ch}, cache |-> ch]
    ELSE [photos |-> {from_dict(fs[p]) : p \in ReadablePaths(fs)},
          cache |-> [i \in ReadableIds(fs) |-> from_dict(fs[last_read[i]])]
                    @@ ch]

\* PhotoManager.load_all_photos: [photos, cache].  The list is given as the
\* set of its photos.
load_all_photos(fs, ch, use_cache, last_read) ==
    IF CacheHit(ch, use_cache)
    THEN [photos |-> {ch[i] : i \in DOMAIN ch}, cache |-> ch]
    ELSE [photos |-> {from_dict(fs[p]) : p \in ReadablePaths(fs)},
          cache |-> [i \in ReadableIds(fs) |-> from_dict(fs[last_read[i]])]]

(* ------------------------ repository: queries -------------------------- *)
\* The queries the caller makes: get_photos_by_state, _with_conflicts,
\* _by_service, _by_hash, _by_date_range, with their arguments.
NextMonth == DaysPerMonth * TicksPerDay

Queries ==
    {[kind |-> "state", text |-> s, start |-> 0, end |-> 0] :
        s \in {"discovered", "resolved"}}
    \cup {[kind |-> "conflicts", text |-> "", start |-> 0, end |-> 0]}
    \cup {[kind |-> "service", text |-> s, start |-> 0, end |-> 0] :
            s \in {GooglePhotos, OtherService}}
    \cup {[kind |-> "hash", text |-> h, start |-> 0, end |-> 0] :
            h \in {"deadbeef"}}
    \cup {[kind |-> "date_range", text |-> "", start |-> 0, end |-> e] :
            e \in {NextMonth - 1, NextMonth}}

\* The list comprehension of each query helper.
Selects(query, photo) ==
    CASE query.kind = "state" -> photo.processing_state = query.text
      [] query.kind = "conflicts" -> has_unresolved_conflicts(photo)
      [] query.kind = "service" -> query.text \in DOMAIN photo.instances
      [] query.kind = "hash" -> photo.content_hash = query.text
      [] query.kind = "date_range" ->
            query.start <= PhotoDate(photo) /\ PhotoDate(photo) <= query.end

\* Every hash that occurs is returned, also with a single photo.
FindDuplicatesNoSizeFilter(photos) ==
    LET hashes == {p.content_hash : p \in photos} \ {NoHash}
    IN  [h \in hashes |-> {p \in photos : p.content_hash = h}]

\* PhotoManager.find_duplicates over the loaded photos: content_hash -> the
\* photos with that hash, for the hashes that more than one photo has.
find_duplicates(photos) ==
    LET hash_to_photos(h) == {p \in photos : p.content_hash = h}
        hashes == {p.content_hash : p \in photos} \ {NoHash}
    IN  [h \in {x \in hashes : Cardinality(hash_to_photos(x)) > 1} |->
            hash_to_photos(h)]

\* PhotoManager.get_statistics over the loaded photos.
get_statistics(photos) ==
    LET all_services == UNION {DOMAIN p.instances : p \in photos}
        year(p) == MonthIndex(PhotoDate(p)) \div MonthsPerYear
    IN  [total_photos |-> Cardinality(photos),
         by_state |->
            [state \in {ProcessingStates[i] : i \in DOMAIN ProcessingStates}
                |-> Cardinality({p \in photos : p.processing_state = state})],
         by_service |->
            [service \in all_services |->
                Cardinality({p \in photos : service \in DOMAIN p.instances})],
         with_conflicts |->
            Cardinality({p \in photos : has_unresolved_conflicts(p)}),
         with_location |-> Cardinality({p \in photos : p.location # Absent}),
         by_year |->
            [y \in {year(p) : p \in photos} |->
                Cardinality({p \in photos : year(p) = y})]]

(* ------------------------ repository: deleting ------------------------- *)
\* A photo that has no file is reported as deleted.
DeleteMissingSucceeds(fs, ch, photo_id, first, io_error) ==
    IF io_error
    THEN [ok |-> FALSE, files |-> fs, cache |-> ch]
    ELSE [ok |-> TRUE,
          files |-> [p \in DOMAIN fs \ {first} |-> fs[p]],
          cache |-> [i \in DOMAIN ch \ {photo_id} |-> ch[i]]]

\* PhotoManager.delete_photo: [ok, files, cache]; first is what
\* get_photo_file_path returns when a file matches, io_error says that unlink
\* raised.
delete_photo(fs, ch, photo_id, first, io_error) ==
    IF PathsOf(fs, photo_id) = {} \/ io_error
    THEN [ok |-> FALSE, files |-> fs, cache |-> ch]
    ELSE [ok |-> TRUE,
          files |-> [p \in DOMAIN fs \ {first} |-> fs[p]],
          cache |-> [i \in DOMAIN ch \ {photo_id} |-> ch[i]]]

(* ------------------------- discovery orchestrator ---------------------- *)
\* A named service that is not enabled is skipped silently and the enabled
\* services are scanned instead.
ServicesToProcessFallback(cfg, service_name_arg) ==
    IF service_name_arg # NoService /\ IsEnabled(cfg, service_name_arg)
    THEN [ok |-> TRUE, list |-> <<service_name_arg>>]
    ELSE [ok |-> TRUE, list |-> EnabledServices(cfg)]

\* services_to_process: [ok, list]; ok = FALSE when a named service is not
\* configured or not enabled.
ServicesToProcess(cfg, service_name_arg) ==
    IF service_name_arg # NoService
    THEN IF IsEnabled(cfg, service_name_arg)
         THEN [ok |-> TRUE, list |-> <<service_name_arg>>]
         ELSE [ok |-> FALSE, list |-> <<>>]
    ELSE [ok |-> TRUE, list |-> EnabledServices(cfg)]

\* --since is looked at before --full-scan.
EffectiveSinceArgFirst(full_scan_arg, since_arg, state, service, now) ==
    IF since_arg.kind # "absent" THEN parse_since_arg(since_arg, now)
    ELSE IF full_scan_arg THEN NoDatetime
    ELSE fromisoformat(LastDiscoveryStr(state, service)).value

\* An unparseable --since falls back to the persisted checkpoint.
EffectiveSinceFallback(full_scan_arg, since_arg, state, service, now) ==
    IF full_scan_arg THEN NoDatetime
    ELSE IF parse_since_arg(since_arg, now).kind = "datetime"
    THEN parse_since_arg(since_arg, now)
    ELSE fromisoformat(LastDiscoveryStr(state, service)).value

\* last_sync_time for one service (cli.py, the if/elif/else before the
\* adapter is constructed).
EffectiveSince(full_scan_arg, since_arg, state, service, now) ==
    IF full_scan_arg THEN NoDatetime
    ELSE IF since_arg.kind # "absent" THEN parse_since_arg(since_arg, now)
    ELSE LET last_discovery_str == LastDiscoveryStr(state, service)
         IN  IF last_discovery_str.kind # "none"
             THEN fromisoformat(last_discovery_str).value
             ELSE NoDatetime

\* The checkpoint is stored as a date, without the time of day.
RecordScanDateOnly(state, service, now, discovered_for_service) ==
    [state EXCEPT !.services =
        (service :> [last_discovery |-> isoformat(Datetime(Midnight(now))),
                     last_discovered_count |-> discovered_for_service])
        @@ state.services]

\* The sync_state after a service's scan ran to the end of its sequence.
RecordScan(state, service, now, discovered_for_service) ==
    [state EXCEPT !.services =
        (service :> [last_discovery |-> isoformat(Datetime(now)),
                     last_discovered_count |-> discovered_for_service])
        @@ state.services]

\* The document is built anew from the services scanned in this run.
RecordRunFresh(state, now) ==
    [services |-> [s \in {x \in DOMAIN state.services :
                             state.services[x].last_discovery.kind = "iso"
                             /\ state.services[x].last_discovery.t = now}
                     |-> state.services[s]],
     last_discovery |-> isoformat(Datetime(now)),
     other_keys |-> {}]

\* The sync_state written at the end of a run that processed a service.
RecordRun(state, now) ==
    [state EXCEPT !.last_discovery = isoformat(Datetime(now))]

\* The exception ends the loop.
TodoAfterRaiseBreak(remaining) == <<>>

\* What is left of services_to_process after the current service's scan
\* raised: the except clause logs and the for loop goes on.
TodoAfterRaise(remaining) == Tail(remaining)

\* A failed save ends the scan.
ItemsAfterSaveBreak(items, ok) == IF ok THEN Tail(items) ELSE <<>>

\* What is left of the adapter's sequence after one save_photo call: the
\* loop body has no break, whatever save_photo returned.
ItemsAfterSave(items, ok) == Tail(items)

\* The checkpoint is recorded in a finally clause.
StateAfterScanAlways(state, service, now, discovered_for_service, raised) ==
    RecordScan(state, service, now, discovered_for_service)

\* The sync_state after the try/except around one service's scan.
StateAfterScan(state, service, now, discovered_for_service, raised) ==
    IF raised THEN state
    ELSE RecordScan(state, service, now, discovered_for_service)

\* The file is written at the end of every run.
WritesSyncStateAlways(processed_any) == TRUE

\* Whether the run writes sync-state.json at its end.
WritesSyncState(processed_any) == processed_any

(* -------------------------------- state -------------------------------- *)
VARIABLES
    clock,                    \* datetime.now()
    schema,                   \* PhotoManager._schema is loaded
    servicesConfig,           \* config/services.json
    syncFile,                 \* config/sync-state.json
    files,                    \* photos/<year>/<month>/<photo_id>.json
    cache,                    \* PhotoManager._photo_cache
    nextId,                   \* the next uuid4
    pc,                       \* where the process is
    runs,                     \* invocations so far
    args,                     \* the current invocation's arguments
    exit,                     \* how the last invocation ended
    sync_state,               \* discover_photos: sync_state
    todo,                     \* services_to_process not yet visited
    processed_any_service,
    overall_discovered_count,
    scan,                     \* the scan in progress
    selected,                 \* services_to_process as computed
    runStart,                 \* clock at invocation
    syncAtStart,              \* sync-state.json at invocation
    trace,                    \* what happened to each visited service
    saved,                    \* photo_ids saved by this invocation
    written,                  \* sync-state.json was written by this invocation
    completedAt,              \* when each service's scan last ran to its
                              \* end, in the invocations before this one
    retry,                    \* old checkpoints of the services whose scan
                              \* raised in the previous invocation
    held,                     \* the Photo objects the caller holds, by photo_id
    last,                     \* the last repository or Photo call and its result
    nops                      \* calls made so far

vars ==
    <<clock, schema, servicesConfig, syncFile, files, cache, nextId, pc,
      runs, args, exit, sync_state, todo, processed_any_service,
      overall_discovered_count, scan, selected, runStart, syncAtStart, trace,
      saved, written, retry, completedAt, held, last, nops>>

callerVars == <<held, last, nops>>

NoFiles == [p \in {} |-> 0]
\* repo: what the process found as its metadata repository: "detected"
\* (path and PhotoManager set), "override_only" (--metadata-repo given but
\* nothing detected, so no PhotoManager) or "none".
Repos == {"detected", "override_only", "none"}
NoArgs ==
    [service |-> NoService, since |-> SinceAbsent, full_scan |-> FALSE,
     repo |-> "detected"]
NoScan ==
    [service |-> NoService, since |-> NoDatetime, started |-> 0, items |-> <<>>,
     ending |-> "exhausted", planned |-> 0, attempts |-> 0, count |-> 0,
     accepted |-> {}, refused |-> {}]
NoRetry == [s \in {} |-> None]
NoCompletedAt == [s \in {} |-> 0]
NoHeld == [i \in {} |-> [photo |-> NoPhoto, cached |-> FALSE]]
NoQuery == [kind |-> "none", text |-> "", start |-> 0, end |-> 0]
NoLast ==
    [op |-> "none", photo_id |-> 0, index |-> 0, query |-> NoQuery,
     validate |-> FALSE, use_cache |-> FALSE, io_error |-> FALSE,
     ok |-> FALSE,
     photo |-> NoPhoto, photos |-> {}, groups |-> <<>>,
     files |-> NoFiles, cache |-> NoFiles, data |-> NoPhoto,
     paths |-> <<>>, stats |-> <<>>]

Init ==
    /\ clock = 0
    /\ schema \in BOOLEAN
    /\ servicesConfig \in ServiceConfigs
    /\ syncFile \in SyncFiles
    /\ files = NoFiles
    /\ cache = NoFiles
    /\ nextId = 1
    /\ pc = "idle"
    /\ runs = 0
    /\ args = NoArgs
    /\ exit = "none"
    /\ sync_state = EmptySyncState
    /\ todo = <<>>
    /\ processed_any_service = FALSE
    /\ overall_discovered_count = 0
    /\ scan = NoScan
    /\ selected = <<>>
    /\ runStart = 0
    /\ syncAtStart = syncFile
    /\ trace = <<>>
    /\ saved = {}
    /\ written = FALSE
    /\ retry = NoRetry
    /\ completedAt = [s \in {x \in DOMAIN syncFile.data.services :
                                syncFile.data.services[x].last_discovery.kind
                                    = "iso"}
                          |-> syncFile.data.services[s].last_discovery.t]
    /\ held = NoHeld
    /\ last = NoLast
    /\ nops = 0

Raised(tr) == {tr[i].service : i \in {j \in 1..Len(tr) : tr[j].result = "raised"}}

\* The services whose scan ran to its end in the invocation, and when.
CompletedIn(tr) ==
    {tr[i].service : i \in {j \in 1..Len(tr) : tr[j].result = "completed"}}

CompletionTime(tr, service) ==
    tr[CHOOSE i \in 1..Len(tr) :
          tr[i].service = service /\ tr[i].result = "completed"].time

(* ------------------------------- actions ------------------------------- *)
\* main(): a new process runs `photosync discover` with the given arguments,
\* at time now (the previous process, if any, has ended).
Invoke(service_name_arg, since_arg, full_scan_arg, repo, now) ==
    /\ pc = "idle"
    /\ now \in clock..MaxTime
    /\ clock' = now
    /\ runs' = runs + 1
    /\ pc' = "called"
    /\ args' = [service |-> service_name_arg, since |-> since_arg,
                full_scan |-> full_scan_arg, repo |-> repo]
    /\ exit' = "none"
    /\ cache' = NoFiles
    /\ sync_state' = EmptySyncState
    /\ todo' = <<>>
    /\ processed_any_service' = FALSE
    /\ overall_discovered_count' = 0
    /\ scan' = NoScan
    /\ selected' = <<>>
    /\ runStart' = now
    /\ syncAtStart' = syncFile
    /\ trace' = <<>>
    /\ saved' = {}
    /\ written' = FALSE
    /\ retry' = [s \in Raised(trace) |-> LastDiscoveryStr(syncAtStart.data, s)]
    /\ completedAt' = [s \in CompletedIn(trace) |-> CompletionTime(trace, s)]
                       @@ completedAt
    /\ UNCHANGED <<schema, servicesConfig, syncFile, files, nextId>>
    /\ UNCHANGED callerVars

\* discover_photos up to the for loop: the early returns, the two files read,
\* services_to_process.
Begin ==
    /\ pc = "called"
    /\ LET sel == ServicesToProcess(servicesConfig, args.service)
           stop == CASE args.repo = "none" -> "no_repo"
                     [] args.repo = "override_only" -> "no_manager"
                     [] syncFile.status = "corrupt" -> "bad_json"
                     [] ~sel.ok -> "bad_service"
                     [] sel.list = <<>> -> "no_services"
                     [] OTHER -> "none"
       IN  IF stop # "none"
           THEN /\ pc' = "idle"
                /\ exit' = stop
                /\ UNCHANGED <<sync_state, todo, selected>>
           ELSE /\ pc' = "loop"
                /\ exit' = "none"
                /\ sync_state' = IF syncFile.status = "ok"
                                 THEN syncFile.data
                                 ELSE EmptySyncState
                /\ todo' = sel.list
                /\ selected' = sel.list
    /\ UNCHANGED <<clock, schema, servicesConfig, syncFile, files, cache,
                   nextId, runs, args, processed_any_service,
                   overall_discovered_count, scan, runStart, syncAtStart, trace,
                   saved, written, retry,
                   completedAt>>
    /\ UNCHANGED callerVars

\* The loop reaches a service without a registered adapter: continue.
SkipService ==
    /\ pc = "loop"
    /\ todo # <<>>
    /\ Head(todo) \notin SERVICE_ADAPTERS
    /\ todo' = Tail(todo)
    /\ trace' = Append(trace, [NoScan EXCEPT !.service = Head(todo)]
                                @@ [result |-> "skipped", time |-> clock])
    /\ UNCHANGED <<clock, schema, servicesConfig, syncFile, files, cache,
                   nextId, pc, runs, args, exit, sync_state,
                   processed_any_service, overall_discovered_count, scan,
                   selected, runStart, syncAtStart, saved, written, retry,
                   completedAt>>
    /\ UNCHANGED callerVars

\* The adapter's constructor raises; nothing catches it and the process ends.
ConstructFails ==
    /\ pc = "loop"
    /\ todo # <<>>
    /\ Head(todo) \in SERVICE_ADAPTERS
    /\ ConstructorRaises(servicesConfig, Head(todo))
    /\ pc' = "idle"
    /\ exit' = "crashed"
    /\ UNCHANGED <<clock, schema, servicesConfig, syncFile, files, cache,
                   nextId, runs, args, sync_state, todo, processed_any_service,
                   overall_discovered_count, scan, selected, runStart,
                   syncAtStart, trace, saved, written, retry,
                   completedAt>>
    /\ UNCHANGED callerVars

\* The loop reaches a service with an adapter: last_sync_time is chosen, the
\* adapter is constructed and discover_photos(last_sync_time) is called.
StartScan(sequence) ==
    /\ pc = "loop"
    /\ todo # <<>>
    /\ Head(todo) \in SERVICE_ADAPTERS
    /\ ~ConstructorRaises(servicesConfig, Head(todo))
    /\ LET last_sync_time ==
               EffectiveSince(args.full_scan, args.since, sync_state, Head(todo),
                              clock)
       IN  /\ sequence \in AdapterSequences(Head(todo), last_sync_time, clock)
           /\ nextId + Len(sequence.items) <= MaxPhotos + 1
           /\ scan' = [service |-> Head(todo), since |-> last_sync_time,
                       started |-> clock, items |-> sequence.items,
                       ending |-> sequence.ending,
                       planned |-> Len(sequence.items), attempts |-> 0,
                       count |-> 0, accepted |-> {}, refused |-> {}]
    /\ pc' = "iterate"
    /\ UNCHANGED <<clock, schema, servicesConfig, syncFile, files, cache,
                   nextId, runs, args, exit, sync_state, todo,
                   processed_any_service, overall_discovered_count, selected,
                   runStart, syncAtStart, trace, saved, written, retry,
                   completedAt>>
    /\ UNCHANGED callerVars

\* The adapter yields a photo and the loop body saves it.
YieldAndSave(conforms, io_error) ==
    /\ pc = "iterate"
    /\ scan.items # <<>>
    /\ LET photo == ParseItemToPhoto(scan.service, Head(scan.items), nextId,
                                     clock, conforms)
           r == save_photo(schema, files, cache, photo, TRUE, io_error)
       IN  /\ files' = r.files
           /\ cache' = r.cache
           /\ saved' = IF r.ok THEN saved \cup {nextId} ELSE saved
           /\ scan' = [scan EXCEPT
                         !.items = ItemsAfterSave(scan.items, r.ok),
                         !.attempts = @ + 1,
                         !.count = IF r.ok THEN @ + 1 ELSE @,
                         !.accepted = IF r.ok THEN @ \cup {nextId} ELSE @,
                         !.refused = IF r.ok THEN @ ELSE @ \cup {nextId}]
    /\ nextId' = nextId + 1
    /\ UNCHANGED <<clock, schema, servicesConfig, syncFile, pc, runs, args,
                   exit, sync_state, todo, processed_any_service,
                   overall_discovered_count, selected, runStart, syncAtStart,
                   trace, written, retry,
                   completedAt>>
    /\ UNCHANGED callerVars

\* The adapter's sequence ends at time now (the last request may have
\* blocked), by StopIteration or by an exception that reaches the for loop;
\* the try/except/else around the scan.
ScanEnds(now) ==
    /\ pc = "iterate"
    /\ scan.items = <<>>
    /\ now \in clock..MaxTime
    /\ clock' = now
    /\ LET raised == RaisesToCaller(scan.ending)
       IN  /\ sync_state' = StateAfterScan(sync_state, scan.service, now,
                                           scan.count, raised)
           /\ processed_any_service' = (processed_any_service \/ ~raised)
           /\ overall_discovered_count' =
                  IF raised THEN overall_discovered_count
                  ELSE overall_discovered_count + scan.count
           /\ todo' = IF raised THEN TodoAfterRaise(todo) ELSE Tail(todo)
           /\ trace' = Append(trace,
                  scan @@ [result |-> IF raised THEN "raised" ELSE "completed",
                           time |-> now])
    /\ pc' = "loop"
    /\ scan' = NoScan
    /\ UNCHANGED <<schema, servicesConfig, syncFile, files, cache, nextId, runs,
                   args, exit, selected, runStart, syncAtStart, saved, written,
                   retry,
                   completedAt>>
    /\ UNCHANGED callerVars

\* After the loop: the repository-wide last_discovery and the write.
Finish ==
    /\ pc = "loop"
    /\ todo = <<>>
    /\ IF WritesSyncState(processed_any_service)
       THEN /\ sync_state' = RecordRun(sync_state, clock)
            /\ syncFile' = [status |-> "ok", data |-> sync_state']
            /\ written' = TRUE
       ELSE UNCHANGED <<sync_state, syncFile, written>>
    /\ pc' = "idle"
    /\ exit' = "finished"
    /\ UNCHANGED <<clock, schema, servicesConfig, files, cache, nextId,
                   runs, args, todo, processed_any_service,
                   overall_discovered_count, scan, selected, runStart,
                   syncAtStart, trace, saved, retry,
                   completedAt>>
    /\ UNCHANGED callerVars

\* One invocation of `photosync discover`, with any arguments.
InvokeAny ==
    /\ runs = 0
    /\ \E n \in ServiceNames \cup {NoService}, s \in SinceArgs, f \in BOOLEAN,
          r \in Repos, t \in 0..MaxTime : Invoke(n, s, f, r, t)

\* `photosync discover` without arguments, run again and again.
InvokeDefault ==
    /\ runs < MaxRuns
    /\ \E t \in 0..MaxTime : Invoke(NoService, SinceAbsent, FALSE, "detected", t)

Step ==
    \/ Begin
    \/ SkipService
    \/ ConstructFails
    \/ \E q \in [items : Prefixes(RemoteItems), ending : Endings] : StartScan(q)
    \/ \E c \in (IF schema THEN BOOLEAN ELSE {TRUE}), e \in BOOLEAN :
          YieldAndSave(c, e)
    \/ \E t \in 0..MaxTime : ScanEnds(t)
    \/ Finish

Next == InvokeAny \/ Step

NextRerun == InvokeDefault \/ Step

\* A single invocation from any repository state.
Spec == Init /\ [][Next]_vars

\* Repeated default invocations.
SpecRerun == Init /\ [][NextRerun]_vars

(* ------------------- the repository and its caller --------------------- *)
discoveryVars ==
    <<servicesConfig, syncFile, pc, runs, args, exit, sync_state, todo,
      processed_any_service, overall_discovered_count, scan, selected,
      runStart, syncAtStart, trace, saved, written, retry,
                   completedAt>>

\* Photos that earlier processes stored.
StoredPhotos ==
    << [ParseItemToPhoto(GooglePhotos, RemoteItems[1], 1, 0, TRUE) EXCEPT
            !.content_hash = "deadbeef",
            !.processing_state = "resolved"],
       [ParseItemToPhoto(OtherService, RemoteItems[2], 2, 0, TRUE) EXCEPT
            !.content_hash = "deadbeef",
            !.conflicts = <<PhotoConflict("duplicate_detected")>>] >>

RECURSIVE StoredFiles(_)
StoredFiles(n) ==
    IF n = 0 THEN NoFiles
    ELSE save_photo(FALSE, StoredFiles(n - 1), NoFiles, StoredPhotos[n],
                    FALSE, FALSE).files

\* The repository after an earlier process loaded the first stored photo,
\* set its taken_date to a day of the next month and saved it: the photo has
\* a file under both months.
RefiledFiles(fs) ==
    save_photo(FALSE, fs, NoFiles,
               [StoredPhotos[1] EXCEPT !.taken_date = Datetime(NextMonth)],
               FALSE, FALSE).files

\* A PhotoManager constructed on a metadata repository that holds the first
\* n stored photos, the first one possibly refiled; its cache is empty and
\* the caller holds no Photo yet.
InitRepo ==
    /\ clock = 0
    /\ schema \in BOOLEAN
    /\ servicesConfig = <<>>
    /\ syncFile = [status |-> "ok", data |-> InitialSyncState]
    /\ \E n \in 0..Len(StoredPhotos), refiled \in BOOLEAN :
          /\ n <= MaxPhotos
          /\ refiled => n >= 1
          /\ files = IF refiled THEN RefiledFiles(StoredFiles(n))
                                ELSE StoredFiles(n)
          /\ nextId = n + 1
    /\ cache = NoFiles
    /\ pc = "idle"
    /\ runs = 0
    /\ args = NoArgs
    /\ exit = "none"
    /\ sync_state = EmptySyncState
    /\ todo = <<>>
    /\ processed_any_service = FALSE
    /\ overall_discovered_count = 0
    /\ scan = NoScan
    /\ selected = <<>>
    /\ runStart = 0
    /\ syncAtStart = syncFile
    /\ trace = <<>>
    /\ saved = {}
    /\ written = FALSE
    /\ retry = NoRetry
    /\ completedAt = NoCompletedAt
    /\ held = NoHeld
    /\ last = NoLast
    /\ nops = 0

\* What every call leaves in last: the call, and storage and cache before it.
Call(op, photo_id) ==
    [NoLast EXCEPT !.op = op, !.photo_id = photo_id, !.files = files,
                   !.cache = cache]

\* The caller's Photo objects after the cache dropped or replaced entries:
\* none of them is the cached object any more.
Uncached(h) == [i \in DOMAIN h |-> [h[i] EXCEPT !.cached = FALSE]]

\* The values taken_date is set to: none, a day of the first month, a day of
\* the second.
TakenDates == {NoDatetime, Datetime(0), Datetime(NextMonth)}

\* photo = Photo(content_hash=...)
CreatePhoto(content_hash, conforms) ==
    /\ nops < MaxOps
    /\ nextId <= MaxPhotos
    /\ held' = (nextId :> [photo |-> NewPhoto(nextId, content_hash, clock,
                                               conforms),
                           cached |-> FALSE]) @@ held
    /\ nextId' = nextId + 1
    /\ last' = Call("Photo", nextId)
    /\ nops' = nops + 1
    /\ UNCHANGED <<clock, schema, files, cache>>
    /\ UNCHANGED discoveryVars

\* photo.metadata.taken_date = d on a Photo the caller holds; the cache sees
\* the change when it holds the same object.
SetTakenDate(photo_id, d) ==
    /\ nops < MaxOps
    /\ photo_id \in DOMAIN held
    /\ held[photo_id].photo.taken_date # d
    /\ LET photo == [held[photo_id].photo EXCEPT !.taken_date = d]
       IN  /\ held' = [held EXCEPT ![photo_id].photo = photo]
           /\ cache' = IF held[photo_id].cached
                       THEN [cache EXCEPT ![photo_id] = photo]
                       ELSE cache
           /\ last' = [Call("taken_date", photo_id) EXCEPT
                          !.photo = held[photo_id].photo]
    /\ nops' = nops + 1
    /\ UNCHANGED <<clock, schema, files, nextId>>
    /\ UNCHANGED discoveryVars

\* The Photo mutator calls the caller of the repository makes.
Mutators ==
    {[name |-> "set_processing_state", arg |-> ProcessingStates[k]] :
        k \in 1..Len(ProcessingStates)}
    \cup {[name |-> "add_conflict", arg |-> "metadata_mismatch"],
          [name |-> "resolve_conflict", arg |-> "0"],
          [name |-> "add_service_instance", arg |-> OtherService],
          [name |-> "remove_service_instance", arg |-> GooglePhotos]}

ApplyMutator(photo, m, now) ==
    CASE m.name = "set_processing_state" ->
            set_processing_state(photo, m.arg, now)
      [] m.name = "add_conflict" ->
            add_conflict(photo, PhotoConflict(m.arg), now)
      [] m.name = "resolve_conflict" -> resolve_conflict(photo, 0, now)
      [] m.name = "add_service_instance" ->
            add_service_instance(
                photo, m.arg, ServiceInstance("item-a", Datetime(now), Absent),
                now)
      [] m.name = "remove_service_instance" ->
            remove_service_instance(photo, m.arg, now)

\* A Photo mutator called on a Photo the caller holds; the cache sees the
\* change when it holds the same object.
MutatePhoto(photo_id, m) ==
    /\ nops < MaxOps
    /\ photo_id \in DOMAIN held
    /\ m.name = "add_conflict"
          => Len(held[photo_id].photo.conflicts) < MaxConflicts
    /\ LET photo == ApplyMutator(held[photo_id].photo, m, clock)
       IN  /\ photo # held[photo_id].photo
           /\ held' = [held EXCEPT ![photo_id].photo = photo]
           /\ cache' = IF held[photo_id].cached
                       THEN [cache EXCEPT ![photo_id] = photo]
                       ELSE cache
           /\ last' = [Call(m.name, photo_id) EXCEPT
                          !.photo = held[photo_id].photo]
    /\ nops' = nops + 1
    /\ UNCHANGED <<clock, schema, files, nextId>>
    /\ UNCHANGED discoveryVars

\* manager.save_photo(photo, validate)
SavePhoto(photo_id, validate, io_error) ==
    /\ nops < MaxOps
    /\ photo_id \in DOMAIN held
    /\ LET photo == held[photo_id].photo
           r == save_photo(schema, files, cache, photo, validate, io_error)
       IN  /\ files' = r.files
           /\ cache' = r.cache
           /\ held' = IF r.ok
                      THEN [held EXCEPT ![photo_id].cached = TRUE]
                      ELSE held
           /\ last' = [Call("save_photo", photo_id) EXCEPT
                          !.validate = validate, !.io_error = io_error,
                          !.ok = r.ok, !.photo = photo]
    /\ nops' = nops + 1
    /\ UNCHANGED <<clock, schema, nextId>>
    /\ UNCHANGED discoveryVars

\* photo = manager.load_photo(photo_id); the caller keeps what it got.
LoadPhoto(photo_id, first) ==
    /\ nops < MaxOps
    /\ photo_id \in 1..MaxPhotos
    /\ first \in PathsOf(files, photo_id) \cup
                 (IF PathsOf(files, photo_id) = {}
                  THEN {NoPath(photo_id)}
                  ELSE {})
    /\ LET r == load_photo(files, cache, photo_id, first)
       IN  /\ cache' = r.cache
           /\ held' = IF r.found
                      THEN (photo_id :> [photo |-> r.photo, cached |-> TRUE])
                           @@ held
                      ELSE held
           /\ last' = [Call("load_photo", photo_id) EXCEPT
                          !.ok = r.found, !.photo = r.photo]
    /\ nops' = nops + 1
    /\ UNCHANGED <<clock, schema, files, nextId>>
    /\ UNCHANGED discoveryVars

\* manager.delete_photo(photo_id)
DeletePhoto(photo_id, first, io_error) ==
    /\ nops < MaxOps
    /\ photo_id \in 1..MaxPhotos
    /\ first \in PathsOf(files, photo_id) \cup
                 (IF PathsOf(files, photo_id) = {}
                  THEN {NoPath(photo_id)}
                  ELSE {})
    /\ LET r == delete_photo(files, cache, photo_id, first, io_error)
       IN  /\ files' = r.files
           /\ cache' = r.cache
           /\ held' = IF r.ok /\ photo_id \in DOMAIN held
                      THEN [held EXCEPT ![photo_id].cached = FALSE]
                      ELSE held
           /\ last' = [Call("delete_photo", photo_id) EXCEPT !.ok = r.ok]
    /\ nops' = nops + 1
    /\ UNCHANGED <<clock, schema, nextId>>
    /\ UNCHANGED discoveryVars

\* Where the process can die inside Photo.save_to_file: before open(), between
\* open(file_path, 'w'), which creates or truncates the file, and the end of
\* json.dump, or after the file was closed.
CrashPoints == {"before_open", "mid_write", "after_close"}

\* The files a save_to_file interrupted at that point leaves behind.
save_to_file_crash(fs, photo, at) ==
    CASE at = "before_open" -> fs
      [] at = "mid_write" ->
            (get_metadata_file_path(photo) :> CorruptContent) @@ fs
      [] at = "after_close" ->
            (get_metadata_file_path(photo) :> to_dict(photo)) @@ fs

\* The process dies during manager.save_photo(photo, validate=False); the
\* next process starts with an empty cache and holds no Photo.
CrashDuringSave(photo_id, at) ==
    /\ nops < MaxOps
    /\ photo_id \in DOMAIN held
    /\ files' = save_to_file_crash(files, held[photo_id].photo, at)
    /\ cache' = NoFiles
    /\ held' = NoHeld
    /\ last' = [Call("crash", photo_id) EXCEPT !.photo = held[photo_id].photo]
    /\ nops' = nops + 1
    /\ UNCHANGED <<clock, schema, nextId>>
    /\ UNCHANGED discoveryVars

\* manager.load_all_photos(use_cache)
LoadAllPhotos(use_cache, last_read) ==
    /\ nops < MaxOps
    /\ last_read \in ScanOrders(files)
    /\ LET r == load_all_photos(files, cache, use_cache, last_read)
       IN  /\ cache' = r.cache
           /\ held' = IF CacheHit(cache, use_cache)
                      THEN held
                      ELSE Uncached(held)
           /\ last' = [Call("load_all_photos", 0) EXCEPT
                          !.use_cache = use_cache, !.photos = r.photos]
    /\ nops' = nops + 1
    /\ UNCHANGED <<clock, schema, files, nextId>>
    /\ UNCHANGED discoveryVars

\* manager.cleanup_cache()
CleanupCache ==
    /\ nops < MaxOps
    /\ cache' = NoFiles
    /\ held' = Uncached(held)
    /\ last' = Call("cleanup_cache", 0)
    /\ nops' = nops + 1
    /\ UNCHANGED <<clock, schema, files, nextId>>
    /\ UNCHANGED discoveryVars

\* One of the query helpers: photos = self.load_all_photos(), then the filter.
QueryPhotos(query, last_read) ==
    /\ nops < MaxOps
    /\ last_read \in ScanOrders(files)
    /\ LET r == load_all_photos(files, cache, TRUE, last_read)
       IN  /\ cache' = r.cache
           /\ held' = IF CacheHit(cache, TRUE)
                      THEN held
                      ELSE Uncached(held)
           /\ last' = [Call("query", 0) EXCEPT
                          !.query = query,
                          !.photos = {ph \in r.photos : Selects(query, ph)}]
    /\ nops' = nops + 1
    /\ UNCHANGED <<clock, schema, files, nextId>>
    /\ UNCHANGED discoveryVars

\* manager.find_duplicates()
FindDuplicates(last_read) ==
    /\ nops < MaxOps
    /\ last_read \in ScanOrders(files)
    /\ LET r == load_all_photos(files, cache, TRUE, last_read)
       IN  /\ cache' = r.cache
           /\ held' = IF CacheHit(cache, TRUE)
                      THEN held
                      ELSE Uncached(held)
           /\ last' = [Call("find_duplicates", 0) EXCEPT
                          !.photos = r.photos,
                          !.groups = find_duplicates(r.photos)]
    /\ nops' = nops + 1
    /\ UNCHANGED <<clock, schema, files, nextId>>
    /\ UNCHANGED discoveryVars

\* manager.get_statistics()
GetStatistics(last_read) ==
    /\ nops < MaxOps
    /\ last_read \in ScanOrders(files)
    /\ LET r == load_all_photos(files, cache, TRUE, last_read)
       IN  /\ cache' = r.cache
           /\ held' = IF CacheHit(cache, TRUE)
                      THEN held
                      ELSE Uncached(held)
           /\ last' = [Call("get_statistics", 0) EXCEPT
                          !.photos = r.photos,
                          !.stats = get_statistics(r.photos)]
    /\ nops' = nops + 1
    /\ UNCHANGED <<clock, schema, files, nextId>>
    /\ UNCHANGED discoveryVars

\* A photo file becomes unreadable (truncated, edited by hand).
CorruptFile(path) ==
    /\ nops < MaxOps
    /\ path \in ReadablePaths(files)
    /\ files' = [files EXCEPT ![path] = CorruptContent]
    /\ last' = Call("corrupt", path.photo_id)
    /\ nops' = nops + 1
    /\ UNCHANGED <<clock, schema, cache, nextId, held>>
    /\ UNCHANGED discoveryVars

\* The paths a photo file can have.
PhotoPaths ==
    {get_metadata_file_path(
        [photo_id |-> i, taken_date |-> d, created_at |-> 0]) :
            i \in 1..MaxPhotos, d \in TakenDates}
    \cup {NoPath(i) : i \in 1..MaxPhotos}

NextRepo ==
    \/ \E h \in Hashes, c \in BOOLEAN : CreatePhoto(h, c)
    \/ \E i \in 1..MaxPhotos, d \in TakenDates : SetTakenDate(i, d)
    \/ \E i \in 1..MaxPhotos, m \in Mutators : MutatePhoto(i, m)
    \/ \E i \in 1..MaxPhotos, v \in BOOLEAN, e \in BOOLEAN : SavePhoto(i, v, e)
    \/ \E i \in 1..MaxPhotos, at \in CrashPoints : CrashDuringSave(i, at)
    \/ \E i \in 1..MaxPhotos, f \in PhotoPaths : LoadPhoto(i, f)
    \/ \E i \in 1..MaxPhotos, f \in PhotoPaths, e \in BOOLEAN :
          DeletePhoto(i, f, e)
    \/ \E u \in BOOLEAN, w \in ScanOrders(files) : LoadAllPhotos(u, w)
    \/ CleanupCache
    \/ \E q \in Queries, w \in ScanOrders(files) : QueryPhotos(q, w)
    \/ \E w \in ScanOrders(files) : FindDuplicates(w)
    \/ \E w \in ScanOrders(files) : GetStatistics(w)
    \/ \E f \in PhotoPaths : CorruptFile(f)

\* A caller working on one metadata repository through its PhotoManager.
SpecRepo == InitRepo /\ [][NextRepo]_vars

(* ------------------------- the Photo mutators -------------------------- *)
\* A process that has constructed no Photo yet.
InitPhoto ==
    /\ Init
    /\ servicesConfig = <<>>
    /\ syncFile = [status |-> "ok", data |-> InitialSyncState]
    /\ schema

\* photo.add_conflict(PhotoConflict(type, ...)) at time now
AddConflict(photo_id, type, now) ==
    /\ photo_id \in DOMAIN held
    /\ Len(held[photo_id].photo.conflicts) < MaxConflicts
    /\ now \in clock..MaxTime
    /\ clock' = now
    /\ held' = [held EXCEPT ![photo_id].photo =
                   add_conflict(@, PhotoConflict(type), now)]
    /\ last' = [NoLast EXCEPT !.op = "add_conflict", !.photo_id = photo_id,
                              !.photo = held[photo_id].photo]
    /\ UNCHANGED <<schema, files, cache, nextId, nops>>
    /\ UNCHANGED discoveryVars

\* photo.resolve_conflict(conflict_index) at time now
ResolveConflict(photo_id, conflict_index, now) ==
    /\ photo_id \in DOMAIN held
    /\ now \in clock..MaxTime
    /\ clock' = now
    /\ held' = [held EXCEPT ![photo_id].photo =
                   resolve_conflict(@, conflict_index, now)]
    /\ last' = [NoLast EXCEPT !.op = "resolve_conflict",
                              !.photo_id = photo_id,
                              !.index = conflict_index,
                              !.photo = held[photo_id].photo]
    /\ UNCHANGED <<schema, files, cache, nextId, nops>>
    /\ UNCHANGED discoveryVars

\* photo.has_unresolved_conflicts()
HasUnresolvedConflicts(photo_id) ==
    /\ photo_id \in DOMAIN held
    /\ last' = [NoLast EXCEPT !.op = "has_unresolved_conflicts",
                              !.photo_id = photo_id,
                              !.ok = has_unresolved_conflicts(
                                         held[photo_id].photo),
                              !.photo = held[photo_id].photo]
    /\ UNCHANGED <<clock, schema, files, cache, nextId, held, nops>>
    /\ UNCHANGED discoveryVars

\* photo = Photo(): the first Photo of the process.  created_at and
\* updated_at are two readings of the clock, the second at time now.
ConstructPhoto(content_hash, now) ==
    /\ held = NoHeld
    /\ now \in clock..MaxTime
    /\ clock' = now
    /\ held' = (nextId :> [photo |-> [NewPhoto(nextId, content_hash, clock,
                                                TRUE)
                                         EXCEPT !.updated_at = now],
                           cached |-> FALSE])
    /\ nextId' = nextId + 1
    /\ last' = [NoLast EXCEPT !.op = "Photo", !.photo_id = nextId]
    /\ UNCHANGED <<schema, files, cache, nops>>
    /\ UNCHANGED discoveryVars

\* photo.add_service_instance(service_name, ServiceInstance(...)) at time now
AddServiceInstance(photo_id, service_name, now) ==
    /\ photo_id \in DOMAIN held
    /\ now \in clock..MaxTime
    /\ clock' = now
    /\ held' = [held EXCEPT ![photo_id].photo =
                   add_service_instance(
                       @, service_name,
                       ServiceInstance("item-a", Datetime(now), Absent), now)]
    /\ last' = [NoLast EXCEPT !.op = "add_service_instance",
                              !.photo_id = photo_id,
                              !.photo = held[photo_id].photo]
    /\ UNCHANGED <<schema, files, cache, nextId, nops>>
    /\ UNCHANGED discoveryVars

\* photo.remove_service_instance(service_name) at time now
RemoveServiceInstance(photo_id, service_name, now) ==
    /\ photo_id \in DOMAIN held
    /\ now \in clock..MaxTime
    /\ clock' = now
    /\ held' = [held EXCEPT ![photo_id].photo =
                   remove_service_instance(@, service_name, now)]
    /\ last' = [NoLast EXCEPT !.op = "remove_service_instance",
                              !.photo_id = photo_id,
                              !.photo = held[photo_id].photo]
    /\ UNCHANGED <<schema, files, cache, nextId, nops>>
    /\ UNCHANGED discoveryVars

\* photo.set_processing_state(state) at time now
SetProcessingState(photo_id, state, now) ==
    /\ photo_id \in DOMAIN held
    /\ now \in clock..MaxTime
    /\ clock' = now
    /\ held' = [held EXCEPT ![photo_id].photo =
                   set_processing_state(@, state, now)]
    /\ last' = [NoLast EXCEPT !.op = "set_processing_state",
                              !.photo_id = photo_id,
                              !.photo = held[photo_id].photo]
    /\ UNCHANGED <<schema, files, cache, nextId, nops>>
    /\ UNCHANGED discoveryVars

NextPhoto ==
    \/ \E h \in Hashes, now \in 0..MaxTime : ConstructPhoto(h, now)
    \/ \E i \in 1..MaxPhotos, sv \in {GooglePhotos, OtherService},
          now \in 0..MaxTime : AddServiceInstance(i, sv, now)
    \/ \E i \in 1..MaxPhotos, sv \in {GooglePhotos, OtherService},
          now \in 0..MaxTime : RemoveServiceInstance(i, sv, now)
    \/ \E i \in 1..MaxPhotos, k \in 1..Len(ProcessingStates),
          now \in 0..MaxTime : SetProcessingState(i, ProcessingStates[k], now)
    \/ \E i \in 1..MaxPhotos, t \in ConflictTypes, now \in 0..MaxTime :
          AddConflict(i, t, now)
    \/ \E i \in 1..MaxPhotos, k \in -1..MaxConflicts, now \in 0..MaxTime :
          ResolveConflict(i, k, now)
    \/ \E i \in 1..MaxPhotos : HasUnresolvedConflicts(i)

\* A caller working on one Photo through its mutators.
SpecPhoto == InitPhoto /\ [][NextPhoto]_vars

(* --------------------------- serialization ----------------------------- *)
\* Photos with each group of optional attributes absent or present; has[k]
\* says whether group k is present.
SamplePhoto(has) ==
    [photo_id |-> 1,
     content_hash |-> IF has[1] THEN "deadbeef" ELSE NoHash,
     canonical_source |-> IF has[1] THEN <<GooglePhotos, "item-a">> ELSE <<>>,
     source_of_truth_path |-> IF has[1] THEN {"originals/a.jpg"} ELSE Absent,
     instances |->
        IF has[2]
        THEN (GooglePhotos :>
                ServiceInstance("item-a",
                                IF has[3] THEN Datetime(1) ELSE NoDatetime,
                                IF has[3] THEN {"https://photos/a"}
                                          ELSE Absent))
        ELSE <<>>,
     taken_date |-> IF has[4] THEN Datetime(1) ELSE NoDatetime,
     filename |-> IF has[4] THEN {"a.jpg"} ELSE Absent,
     location |-> IF has[5]
                  THEN {Location(0, IF has[4] THEN {"Home"} ELSE Absent)}
                  ELSE Absent,
     camera_info |-> IF has[6]
                     THEN {CameraInfo(IF has[4] THEN {"Leica"} ELSE Absent)}
                     ELSE Absent,
     visibility |->
        IF has[7]
        THEN [canonical |-> "public",
              per_service |-> (GooglePhotos :> "private"),
              discrepancies |-> <<VisibilityDiscrepancy(
                                     GooglePhotos, "private", "public")>>]
        ELSE PhotoVisibility,
     processing_state |-> IF has[7] THEN "replicated" ELSE "discovered",
     created_at |-> 0,
     updated_at |-> IF has[6] THEN 1 ELSE 0,
     conflicts |-> IF has[6]
                   THEN <<[type |-> "metadata_mismatch",
                           resolution_required |-> FALSE]>>
                   ELSE <<>>,
     conforms |-> TRUE]

OptionalGroups == 1..7

SamplePhotos == {SamplePhoto(has) : has \in [OptionalGroups -> BOOLEAN]}

\* A process that runs no discovery.
NoDiscovery ==
    /\ servicesConfig = <<>>
    /\ syncFile = [status |-> "ok", data |-> InitialSyncState]
    /\ pc = "idle"
    /\ runs = 0
    /\ args = NoArgs
    /\ exit = "none"
    /\ sync_state = EmptySyncState
    /\ todo = <<>>
    /\ processed_any_service = FALSE
    /\ overall_discovered_count = 0
    /\ scan = NoScan
    /\ selected = <<>>
    /\ runStart = 0
    /\ syncAtStart = syncFile
    /\ trace = <<>>
    /\ saved = {}
    /\ written = FALSE
    /\ retry = NoRetry
    /\ completedAt = NoCompletedAt

\* A process that holds one Photo.
InitSerial ==
    /\ NoDiscovery
    /\ clock = 0
    /\ schema = FALSE
    /\ files = NoFiles
    /\ cache = NoFiles
    /\ nextId = 2
    /\ \E p \in SamplePhotos : held = (1 :> [photo |-> p, cached |-> FALSE])
    /\ last = NoLast
    /\ nops = 0

\* data = photo.to_dict()
ToDict(photo_id) ==
    /\ photo_id \in DOMAIN held
    /\ last.op # "to_dict"
    /\ last' = [NoLast EXCEPT !.op = "to_dict", !.photo_id = photo_id,
                              !.data = to_dict(held[photo_id].photo)]
    /\ UNCHANGED <<clock, schema, files, cache, nextId, held, nops>>
    /\ UNCHANGED discoveryVars

\* photo = Photo.from_dict(data)
FromDict ==
    /\ last.op = "to_dict"
    /\ last' = [last EXCEPT !.op = "from_dict",
                            !.photo = from_dict(last.data)]
    /\ UNCHANGED <<clock, schema, files, cache, nextId, held, nops>>
    /\ UNCHANGED discoveryVars

NextSerial ==
    \/ \E i \in DOMAIN held : ToDict(i)
    \/ FromDict

\* A Photo serialized and read back.
SpecSerial == InitSerial /\ [][NextSerial]_vars

(* ------------------------------ file paths ---------------------------- *)
\* Times in the first, second, tenth and twelfth month of the first year and
\* in the first month of the second, two in each.
PathTimes ==
    {k * NextMonth + d : k \in {0, 1, 9, MonthsPerYear - 1, MonthsPerYear},
                         d \in {0, 1}}

\* Photos that differ in photo_id, taken_date, created_at and content_hash.
PathPhotos ==
    {[NewPhoto(i, h, c, TRUE) EXCEPT !.taken_date = t] :
        i \in 1..MaxPhotos, h \in Hashes,
        c \in {0, MonthsPerYear * NextMonth},
        t \in {NoDatetime} \cup {Datetime(x) : x \in PathTimes}}

\* A process that holds two Photos, in slots 1 and 2.
InitPath ==
    /\ NoDiscovery
    /\ clock = 0
    /\ schema = FALSE
    /\ files = NoFiles
    /\ cache = NoFiles
    /\ nextId = MaxPhotos + 1
    /\ \E a, b \in PathPhotos :
          held = (1 :> [photo |-> a, cached |-> FALSE])
                 @@ (2 :> [photo |-> b, cached |-> FALSE])
    /\ last = NoLast
    /\ nops = 0

\* photo.get_metadata_file_path(base_path) for both photos, same base_path
GetMetadataFilePaths ==
    /\ last.op = "none"
    /\ last' = [NoLast EXCEPT
                  !.op = "get_metadata_file_path",
                  !.paths = <<get_metadata_file_path(held[1].photo),
                              get_metadata_file_path(held[2].photo)>>]
    /\ UNCHANGED <<clock, schema, files, cache, nextId, held, nops>>
    /\ UNCHANGED discoveryVars

NextPath == GetMetadataFilePaths

\* The paths of two Photos under one base_path.
SpecPath == InitPath /\ [][NextPath]_vars

(* ------------------------------ visibility ----------------------------- *)
\* What the services can have reported about one photo.
PerServiceLevels ==
    UNION {[S -> VisibilityLevels] : S \in SUBSET ServiceNames}

\* A process that holds one Photo, in slot 1, whose discrepancies were never
\* computed.
InitVisibility ==
    /\ NoDiscovery
    /\ clock = 0
    /\ schema = FALSE
    /\ files = NoFiles
    /\ cache = NoFiles
    /\ nextId = 2
    /\ \E c \in VisibilityLevels, ps \in PerServiceLevels :
          held = (1 :> [photo |-> [NewPhoto(1, NoHash, 0, TRUE) EXCEPT
                                     !.visibility.canonical = c,
                                     !.visibility.per_service = ps],
                        cached |-> FALSE])
    /\ last = NoLast
    /\ nops = 0

\* The discrepancy computation runs on the photo; last.index counts the runs
\* since the photo's visibility was last changed, last.photo is the photo as
\* the run found it.
ComputeDiscrepancies ==
    /\ nops < MaxOps
    /\ held' = [held EXCEPT
                  ![1].photo.visibility = compute_discrepancies(@)]
    /\ last' = [Call("compute_discrepancies", 1) EXCEPT
                  !.photo = held[1].photo,
                  !.index = IF last.op = "compute_discrepancies"
                            THEN last.index + 1 ELSE 1]
    /\ nops' = nops + 1
    /\ UNCHANGED <<clock, schema, files, cache, nextId>>
    /\ UNCHANGED discoveryVars

\* photo.visibility.canonical = level
SetCanonical(level) ==
    /\ nops < MaxOps
    /\ held[1].photo.visibility.canonical # level
    /\ held' = [held EXCEPT ![1].photo.visibility.canonical = level]
    /\ last' = [Call("set_canonical", 1) EXCEPT !.photo = held[1].photo]
    /\ nops' = nops + 1
    /\ UNCHANGED <<clock, schema, files, cache, nextId>>
    /\ UNCHANGED discoveryVars

\* photo.visibility.per_service[service] = level
SetPerService(service, level) ==
    /\ nops < MaxOps
    /\ LET ps == held[1].photo.visibility.per_service
       IN  /\ service \in DOMAIN ps => ps[service] # level
           /\ held' = [held EXCEPT ![1].photo.visibility.per_service =
                                      (service :> level) @@ ps]
    /\ last' = [Call("set_per_service", 1) EXCEPT !.photo = held[1].photo]
    /\ nops' = nops + 1
    /\ UNCHANGED <<clock, schema, files, cache, nextId>>
    /\ UNCHANGED discoveryVars

NextVisibility ==
    \/ ComputeDiscrepancies
    \/ \E level \in VisibilityLevels : SetCanonical(level)
    \/ \E service \in ServiceNames, level \in VisibilityLevels :
          SetPerService(service, level)

\* The discrepancy computation on one photo whose visibility changes.
SpecVisibility == InitVisibility /\ [][NextVisibility]_vars

(* ------------------------------ properties ----------------------------- *)
\* A service's entry in a sync-state file, if the file holds one.
ServiceEntry(file, service) ==
    IF file.status = "ok" /\ service \in DOMAIN file.data.services
    THEN [present |-> TRUE, entry |-> file.data.services[service]]
    ELSE [present |-> FALSE,
          entry |-> [last_discovery |-> None, last_discovered_count |-> 0]]

\* The scans of this invocation: those that ended, and the one in progress.
Scans ==
    {trace[i] : i \in {j \in 1..Len(trace) : trace[j].result # "skipped"}}
    \cup (IF pc = "iterate"
          THEN {scan @@ [result |-> "running", time |-> clock]}
          ELSE {})

Completed == {e \in Scans : e.result = "completed"}

StoredIds == {files[p].photo_id : p \in DOMAIN files}

\* The datetime a persisted checkpoint string stands for, if it is one.
CheckpointOf(str) == IF str.kind = "iso" THEN Datetime(str.t) ELSE NoDatetime

\* C1: a service whose adapter sequence raised during iteration keeps, in
\* the persisted sync-state, exactly the last_discovery and
\* last_discovered_count it had before the run, also when the run wrote the
\* file for other services and when photos of the service were saved before
\* the exception; and the next default run calls its adapter with that old
\* checkpoint.
C1_RaisedScanKeepsCheckpoint ==
    /\ \A e \in Scans :
          e.result = "raised" =>
              ServiceEntry(syncFile, e.service) =
                  ServiceEntry(syncAtStart, e.service)
    /\ \A e \in Scans :
          e.service \in DOMAIN retry =>
              e.since = CheckpointOf(retry[e.service])

C1_Witness ==
    /\ runs = 2
    /\ OtherService \in DOMAIN retry
    /\ retry[OtherService].kind = "iso"
    /\ \E p \in DOMAIN files :
          /\ files[p].canonical_source[1] = OtherService
          /\ files[p].photo_id \notin saved
    /\ \E e \in Scans :
          e.service = OtherService /\ e.since = Datetime(retry[OtherService].t)

\* C2: when one service's adapter raised during iteration, every other
\* selected service that has an adapter and whose own scan did not raise was
\* scanned to the end in the same run, and the file holds its last_discovery
\* (the time its scan ended) and its last_discovered_count.
C2_OtherServicesStillScanned ==
    exit = "finished" =>
        \A i \in 1..Len(selected) :
            ( /\ selected[i] \in SERVICE_ADAPTERS
              /\ selected[i] \notin Raised(trace)
              /\ Raised(trace) # {} ) =>
                \E e \in Completed :
                    /\ e.service = selected[i]
                    /\ ServiceEntry(syncFile, e.service) =
                           [present |-> TRUE,
                            entry |-> [last_discovery |-> IsoString(e.time),
                                       last_discovered_count |-> e.count]]

C2_Witness ==
    /\ exit = "finished"
    /\ \E i, j \in 1..Len(trace) :
          /\ i < j
          /\ trace[i].result = "raised"
          /\ trace[i].accepted # {}
          /\ trace[j].result = "completed"
          /\ written

\* A service-side failure of the Google Photos scan, as the claim lists them.
ServiceSideFailure(ending) == ending \in {"no_credentials", "http_error"}

\* C3: when the Google Photos scan fails on the service side (no valid
\* credentials, or an API error after zero or more items), the run leaves
\* the google-photos last_discovery in the sync-state at its previous value.
C3_GoogleFailureKeepsCheckpoint ==
    \A e \in Scans :
        (e.service = GooglePhotos /\ ServiceSideFailure(e.ending)) =>
            LastDiscoveryStr(syncFile.data, GooglePhotos) =
                LastDiscoveryStr(syncAtStart.data, GooglePhotos)

\* C4 as stated: the since passed to the adapter is the --since timestamp if
\* one is supplied, else none under --full-scan, else the persisted
\* last_discovery, else none.
C4_SinceBeforeFullScan ==
    \A e \in Scans :
        e.since =
            IF args.since.kind # "absent"
            THEN parse_since_arg(args.since, e.started)
            ELSE IF args.full_scan THEN NoDatetime
            ELSE CheckpointOf(LastDiscoveryStr(syncAtStart.data, e.service))

\* C4 amended: the since passed to the adapter is none under --full-scan,
\* else the --since timestamp if one is supplied (none if it cannot be
\* parsed), else the persisted last_discovery if it is a timestamp, else
\* none.
C4_FullScanBeforeSince ==
    \A e \in Scans :
        e.since =
            IF args.full_scan THEN NoDatetime
            ELSE IF args.since.kind # "absent"
            THEN parse_since_arg(args.since, e.started)
            ELSE CheckpointOf(LastDiscoveryStr(syncAtStart.data, e.service))

C4_Witness ==
    \E e \in Scans :
        /\ ~args.full_scan
        /\ args.since.kind = "yesterday"
        /\ LastDiscoveryStr(syncAtStart.data, e.service).kind = "iso"
        /\ e.since # CheckpointOf(LastDiscoveryStr(syncAtStart.data, e.service))
        /\ e.since.kind = "datetime"

\* C5: under --full-scan every adapter is called with since = none, whatever
\* --since was given and whatever checkpoint is persisted.
C5_FullScanForcesNoSince ==
    args.full_scan => \A e \in Scans : e.since = NoDatetime

C5_Witness ==
    /\ args.full_scan
    /\ args.since.kind = "date"
    /\ \E e \in Scans :
          /\ LastDiscoveryStr(syncAtStart.data, e.service).kind = "iso"
          /\ e.since = NoDatetime

\* C6: for a service without a prior last_discovery whose adapter yielded N
\* photos that were all saved, the file written by the run holds
\* last_discovered_count = N and a last_discovery at or after the run's start.
C6_CheckpointLaw ==
    exit = "finished" =>
        \A e \in Completed :
            ( /\ LastDiscoveryStr(syncAtStart.data, e.service) = None
              /\ e.attempts = e.planned
              /\ e.count = e.planned ) =>
                LET entry == ServiceEntry(syncFile, e.service)
                IN  /\ entry.present
                    /\ entry.entry.last_discovered_count = e.planned
                    /\ entry.entry.last_discovery.kind = "iso"
                    /\ entry.entry.last_discovery.t >= runStart

C6_Witness ==
    /\ exit = "finished"
    /\ \E e \in Completed :
          /\ LastDiscoveryStr(syncAtStart.data, e.service) = None
          /\ e.planned = 2
          /\ e.count = 2
          /\ ServiceEntry(syncFile, e.service).entry.last_discovered_count = 2
          /\ ServiceEntry(syncFile, e.service).entry.last_discovery.t > runStart

\* C7: a scan whose sequence held N photos and ran to its end attempted all
\* N saves; with k of them refused, the N-k accepted photos are in storage,
\* the refused ones are not, last_discovered_count is N-k and the service's
\* last_discovery is the time the scan ended.
C7_FailedSaveDoesNotStopScan ==
    /\ \A e \in Completed :
          /\ e.attempts = e.planned
          /\ Cardinality(e.accepted) + Cardinality(e.refused) = e.planned
          /\ e.count = e.planned - Cardinality(e.refused)
          /\ e.accepted \subseteq StoredIds
          /\ e.refused \cap StoredIds = {}
          /\ ServiceEntry([status |-> "ok", data |-> sync_state], e.service)
                 .entry.last_discovered_count = e.planned - Cardinality(e.refused)
    /\ exit = "finished" =>
          \A e \in Completed :
              ServiceEntry(syncFile, e.service) =
                  [present |-> TRUE,
                   entry |-> [last_discovery |-> IsoString(e.time),
                              last_discovered_count |->
                                  e.planned - Cardinality(e.refused)]]

C7_Witness ==
    /\ exit = "finished"
    /\ \E e \in Completed :
          /\ \E r \in e.refused, a \in e.accepted : r < a
          /\ ServiceEntry(syncFile, e.service).entry.last_discovered_count = 1

C9_OnePhotoPerCanonicalSource ==
    (runs = 2 /\ exit = "finished") =>
        \A p, q \in DOMAIN files :
            files[p].canonical_source = files[q].canonical_source => p = q

\* C10: when the caller names a service that is absent from the services
\* configuration or not enabled, the invocation returns at once: no adapter
\* is constructed or called, no photo is saved and sync-state.json is not
\* written.
C10_NamedServiceHardStop ==
    ( /\ runs > 0
      /\ args.repo = "detected"
      /\ args.service # NoService
      /\ ~IsEnabled(servicesConfig, args.service) ) =>
        /\ pc \in {"called", "idle"}
        /\ pc = "idle" => exit \in {"bad_service", "bad_json"}
        /\ selected = <<>>
        /\ trace = <<>>
        /\ scan = NoScan
        /\ saved = {}
        /\ StoredIds = {}
        /\ ~written
        /\ syncFile = syncAtStart

C10_Witness ==
    /\ exit = "bad_service"
    /\ args.service \in Names(servicesConfig)
    /\ \E s \in SERVICE_ADAPTERS : IsEnabled(servicesConfig, s)

\* C11: with a schema loaded, save_photo(p, validate=True) of a photo that
\* fails validation returns False and changes nothing: no file is created or
\* modified and the cache is as it was.
C11_InvalidPhotoNotSaved ==
    ( /\ last.op = "save_photo"
      /\ last.validate
      /\ schema
      /\ validate_photo(schema, last.photo) # <<>> ) =>
        /\ ~last.ok
        /\ files = last.files
        /\ cache = last.cache

\* An invalid photo was refused while the repository held another photo and
\* the cache another entry.
C11_Witness ==
    /\ last.op = "save_photo"
    /\ last.validate
    /\ schema
    /\ ~last.photo.conforms
    /\ ~last.ok
    /\ DOMAIN files # {}
    /\ DOMAIN cache # {}

\* The outcomes of load_photo(photo_id) in the current state, one for each
\* file the search may find first.
LoadPhotoNow(photo_id) ==
    {load_photo(files, cache, photo_id, f) :
        f \in IF PathsOf(files, photo_id) = {}
              THEN {NoPath(photo_id)}
              ELSE PathsOf(files, photo_id)}

\* C12: after save_photo(p) returned True, the file at the path computed by
\* p.get_metadata_file_path holds the serialized p (from which p can be read
\* back), the cache maps p.photo_id to p, and load_photo(p.photo_id) returns
\* p.
C12_SavedPhotoStoredAndCached ==
    (last.op = "save_photo" /\ last.ok) =>
        LET p == last.photo
            path == get_metadata_file_path(p)
        IN  /\ path \in DOMAIN files
            /\ path.photo_id = p.photo_id
            /\ files[path] = to_dict(p)
            /\ from_dict(files[path]) = p
            /\ p.photo_id \in DOMAIN cache
            /\ cache[p.photo_id] = p
            /\ \A r \in LoadPhotoNow(p.photo_id) : r.found /\ r.photo = p

\* A photo with a taken_date was saved to a path at which no file was, while
\* the cache held an older value of it.
C12_Witness ==
    /\ last.op = "save_photo"
    /\ last.ok
    /\ last.photo.taken_date.kind = "datetime"
    /\ get_metadata_file_path(last.photo) \notin DOMAIN last.files
    /\ last.photo_id \in DOMAIN last.cache
    /\ last.cache[last.photo_id] # last.photo

\* The outcomes of load_all_photos(use_cache=False) in the current state, one
\* for each order of the scan.
LoadAllNow ==
    {load_all_photos(files, cache, FALSE, w) : w \in ScanOrders(files)}

\* C13: after delete_photo(id) returned True the photo is gone: no file of
\* that photo_id is in storage, the cache has no entry for it, load_photo(id)
\* finds nothing and load_all_photos(use_cache=False) returns no photo with
\* that id.
C13_DeletedPhotoIsGone ==
    (last.op = "delete_photo" /\ last.ok) =>
        /\ PathsOf(files, last.photo_id) = {}
        /\ last.photo_id \notin DOMAIN cache
        /\ \A r \in LoadPhotoNow(last.photo_id) : ~r.found
        /\ \A r \in LoadAllNow :
              \A ph \in r.photos : ph.photo_id # last.photo_id

\* C14: delete_photo(id) for a photo_id that has no file in storage returns
\* False (it does not raise) and leaves storage and the cache as they were.
C14_DeleteMissingReturnsFalse ==
    ( /\ last.op = "delete_photo"
      /\ PathsOf(last.files, last.photo_id) = {} ) =>
        /\ ~last.ok
        /\ files = last.files
        /\ cache = last.cache

\* A photo without a file was asked to be deleted while storage held other
\* photos and the cache was not empty.
C14_Witness ==
    /\ last.op = "delete_photo"
    /\ PathsOf(last.files, last.photo_id) = {}
    /\ ~last.ok
    /\ DOMAIN files # {}
    /\ DOMAIN cache # {}

\* The photos held in the readable files of storage.
StoredCollection == {from_dict(files[p]) : p \in ReadablePaths(files)}

\* C15 as stated: load_all_photos(use_cache=False) returns exactly the photos
\* held in readable files of storage, whatever the cache held before, and
\* leaves the cache holding exactly those photos.
C15_FullScanCacheHoldsAll ==
    (last.op = "load_all_photos" /\ ~last.use_cache) =>
        /\ last.photos = StoredCollection
        /\ {cache[i] : i \in DOMAIN cache} = last.photos

\* C15 amended: load_all_photos(use_cache=False) returns exactly the photos
\* held in readable files of storage, whatever the cache held before, and
\* leaves the cache holding, for each photo_id among them and for no other,
\* one of the returned photos with that photo_id.
C15_FullScanCacheByPhotoId ==
    (last.op = "load_all_photos" /\ ~last.use_cache) =>
        /\ last.photos = StoredCollection
        /\ DOMAIN cache = {ph.photo_id : ph \in last.photos}
        /\ \A i \in DOMAIN cache :
              cache[i] \in last.photos /\ cache[i].photo_id = i

\* A full scan was made while two readable files carried one photo_id and
\* the cache held something before.
C15_Witness ==
    /\ last.op = "load_all_photos"
    /\ ~last.use_cache
    /\ DOMAIN last.cache # {}
    /\ \E p, q \in ReadablePaths(files) :
          p # q /\ files[p].photo_id = files[q].photo_id
    /\ Cardinality(last.photos) > Cardinality(DOMAIN cache)

\* C16: each query helper (by state, by unresolved conflicts, by service, by
\* content hash, by date range) returns exactly the photos of the stored
\* collection that satisfy its predicate; a partly filled cache hides no
\* stored photo from a query.
C16_QueryOverStoredCollection ==
    (last.op = "query") =>
        last.photos = {ph \in StoredCollection : Selects(last.query, ph)}

\* The loaded photos that carry content_hash h.
LoadedWithHash(h) == {ph \in last.photos : ph.content_hash = h}

\* C17: find_duplicates returns exactly the mapping from each non-empty
\* content_hash carried by two or more loaded photos to all loaded photos
\* with that hash: no group has fewer than 2 members, every member of group
\* h has content_hash h, and a photo without content_hash is in no group.
C17_DuplicateGroups ==
    (last.op = "find_duplicates") =>
        /\ DOMAIN last.groups =
              {h \in Hashes \ {NoHash} : Cardinality(LoadedWithHash(h)) >= 2}
        /\ \A h \in DOMAIN last.groups :
              /\ last.groups[h] = LoadedWithHash(h)
              /\ Cardinality(last.groups[h]) >= 2
              /\ \A ph \in last.groups[h] :
                    ph.content_hash = h /\ ph.content_hash # NoHash

\* find_duplicates returned a group while one loaded photo was new in the
\* repository.
C17_Witness ==
    /\ last.op = "find_duplicates"
    /\ DOMAIN last.groups # {}
    /\ \E ph \in last.photos : ph.canonical_source = <<>>

\* C18: the repository never moves files.  When a saved photo is saved again
\* after its taken_date changed so that its computed path changed, the new
\* file is written at the new path and the old file stays in storage as it
\* was; a save changes no file but the one at the computed path.
C18_SaveNeverMovesFiles ==
    (last.op = "save_photo" /\ last.ok) =>
        LET path == get_metadata_file_path(last.photo)
        IN  /\ DOMAIN files = DOMAIN last.files \cup {path}
            /\ files[path] = to_dict(last.photo)
            /\ \A q \in DOMAIN last.files \ {path} : files[q] = last.files[q]

\* A photo that had a file was saved to another path: both files are in
\* storage, the old one with the old taken_date.
C18_Witness ==
    /\ last.op = "save_photo"
    /\ last.ok
    /\ \E old \in PathsOf(last.files, last.photo_id) :
          /\ old # get_metadata_file_path(last.photo)
          /\ get_metadata_file_path(last.photo) \notin DOMAIN last.files
          /\ old \in DOMAIN files
          /\ Readable(files[old])
          /\ from_dict(files[old]).taken_date # last.photo.taken_date

\* C19: a full scan by load_all_photos skips the files that do not load and
\* goes on: the result holds the photo of every readable file in storage and
\* the rebuilt cache has every readable photo under its photo_id (the photo
\* itself when one readable file carries that id), whatever the position of
\* the corrupt files in the scan.
C19_FullScanSkipsCorruptFiles ==
    ( /\ last.op = "load_all_photos"
      /\ ~CacheHit(last.cache, last.use_cache) ) =>
        \A p \in ReadablePaths(files) :
            LET ph == from_dict(files[p])
            IN  /\ ph \in last.photos
                /\ ph.photo_id \in DOMAIN cache
                /\ cache[ph.photo_id] \in StoredCollection
                /\ (\A q \in ReadablePaths(files) :
                        files[q].photo_id = ph.photo_id => q = p)
                      => cache[ph.photo_id] = ph

\* A full scan ran over a storage with a corrupt file and a readable one.
C19_Witness ==
    /\ last.op = "load_all_photos"
    /\ ~CacheHit(last.cache, last.use_cache)
    /\ ReadablePaths(files) # DOMAIN files
    /\ ReadablePaths(files) # {}
    /\ last.photos # {}
    /\ DOMAIN cache # {}

\* C20: has_unresolved_conflicts(p) is true iff some conflict of p has
\* resolution_required true; after resolve_conflict(i) with a valid index i,
\* conflicts[i].resolution_required is false and every other conflict, and
\* everything else of conflicts[i], is as before.
C20_ConflictResolution ==
    /\ (last.op = "has_unresolved_conflicts") =>
          (last.ok <=>
              \E i \in 1..Len(held[last.photo_id].photo.conflicts) :
                  held[last.photo_id].photo.conflicts[i].resolution_required)
    /\ ( /\ last.op = "resolve_conflict"
         /\ 0 <= last.index
         /\ last.index < Len(last.photo.conflicts) ) =>
          LET before == last.photo.conflicts
              after == held[last.photo_id].photo.conflicts
          IN  /\ Len(after) = Len(before)
              /\ ~after[last.index + 1].resolution_required
              /\ after[last.index + 1].type = before[last.index + 1].type
              /\ \A j \in 1..Len(before) :
                    j # last.index + 1 => after[j] = before[j]

\* has_unresolved_conflicts answered True for a photo whose newest conflict
\* has been resolved and whose older one has not.
C20_Witness ==
    /\ last.op = "has_unresolved_conflicts"
    /\ last.ok
    /\ Len(held[last.photo_id].photo.conflicts) = 2
    /\ held[last.photo_id].photo.conflicts[1].resolution_required
    /\ ~held[last.photo_id].photo.conflicts[2].resolution_required

\* C21: conflict history is append-only.  Over every step of the Photo
\* mutators the conflicts sequence keeps its elements in their places, and an
\* existing conflict changes at most by resolution_required going from true
\* to false.
C21_ConflictsAppendOnly ==
    [][\A i \in DOMAIN held :
          /\ i \in DOMAIN held'
          /\ LET before == held[i].photo.conflicts
                 after == held'[i].photo.conflicts
             IN  /\ Len(after) >= Len(before)
                 /\ \A j \in 1..Len(before) :
                       /\ after[j].type = before[j].type
                       /\ after[j].resolution_required
                             => before[j].resolution_required]_vars

\* A conflict was added after an older one had been resolved: the resolved
\* one is still first in the list.
C21_Witness ==
    /\ last.op = "add_conflict"
    /\ Len(held[last.photo_id].photo.conflicts) = 2
    /\ ~held[last.photo_id].photo.conflicts[1].resolution_required
    /\ held[last.photo_id].photo.conflicts[2].resolution_required
    /\ held[last.photo_id].photo.conflicts[1].type
          # held[last.photo_id].photo.conflicts[2].type

\* The calls of the last step that changed instances, conflicts or
\* processing_state of the photo.
Mutated ==
    /\ last.op \in {"add_service_instance", "remove_service_instance",
                    "add_conflict", "resolve_conflict",
                    "set_processing_state"}
    /\ \/ last.op \in {"add_service_instance", "add_conflict",
                       "set_processing_state"}
       \/ /\ last.op = "remove_service_instance"
          /\ DOMAIN held[last.photo_id].photo.instances
                # DOMAIN last.photo.instances
       \/ /\ last.op = "resolve_conflict"
          /\ 0 <= last.index
          /\ last.index < Len(last.photo.conflicts)

\* C22: every Photo has updated_at >= created_at in every reachable state; a
\* mutation made through add_service_instance, remove_service_instance,
\* add_conflict, resolve_conflict or set_processing_state sets updated_at to
\* the current clock value; and updated_at never decreases.
C22_UpdatedAtRefreshed ==
    /\ [](\A i \in DOMAIN held :
            held[i].photo.updated_at >= held[i].photo.created_at)
    /\ [](Mutated => held[last.photo_id].photo.updated_at = clock)
    /\ [][\A i \in DOMAIN held :
            i \in DOMAIN held'
                => held'[i].photo.updated_at >= held[i].photo.updated_at]_vars

\* A photo created at one time had its processing_state set at a later time:
\* updated_at is the later time.
C22_Witness ==
    /\ last.op = "set_processing_state"
    /\ clock > held[last.photo_id].photo.created_at
    /\ held[last.photo_id].photo.updated_at = clock
    /\ last.photo.updated_at < clock

\* The position of a processing state in DISCOVERED -> RESOLVED -> REPLICATED.
Rank(state) ==
    CHOOSE k \in 1..Len(ProcessingStates) : ProcessingStates[k] = state

\* C23: every Photo is created in DISCOVERED and no step moves its
\* processing_state from a later state of the lifecycle back to an earlier
\* one.
C23_LifecycleOnlyForward ==
    /\ [](last.op = "Photo"
            => held[last.photo_id].photo.processing_state = "discovered")
    /\ [][\A i \in DOMAIN held :
            i \in DOMAIN held'
                => Rank(held'[i].photo.processing_state)
                      >= Rank(held[i].photo.processing_state)]_vars

\* C24: a photo's photo_id never changes after creation.  Every Photo the
\* caller got under an id (constructed, or returned by load_photo for that
\* id) carries that id after any Photo mutator and repository operation, the
\* cache and the files hold each photo under its own id, and the photos that
\* load_all_photos returns carry the ids of the files they were read from.
C24_PhotoIdStable ==
    /\ \A i \in DOMAIN held : held[i].photo.photo_id = i
    /\ \A i \in DOMAIN cache : cache[i].photo_id = i
    /\ \A p \in ReadablePaths(files) : files[p].photo_id = p.photo_id
    /\ (last.op = "load_photo" /\ last.ok) => last.photo.photo_id = last.photo_id
    /\ (last.op = "load_all_photos") =>
          \A ph \in last.photos :
              \/ \E p \in ReadablePaths(files) :
                    /\ p.photo_id = ph.photo_id
                    /\ from_dict(files[p]) = ph
              \/ /\ ph.photo_id \in DOMAIN last.cache
                 /\ last.cache[ph.photo_id] = ph

\* A photo that was constructed and saved was read back from its file by
\* load_photo after the cache had been cleared.
C24_Witness ==
    /\ last.op = "load_photo"
    /\ last.ok
    /\ last.photo_id \notin DOMAIN last.cache
    /\ last.photo.canonical_source = <<>>
    /\ last.photo.photo_id = last.photo_id

\* C25: serialization round-trips.  For every Photo p, from_dict(to_dict(p))
\* equals p field for field, with every optional field absent, with all of
\* them present, and with every mix.
C25_RoundTrip ==
    (last.op = "from_dict") =>
        /\ last.data = to_dict(held[last.photo_id].photo)
        /\ last.photo = held[last.photo_id].photo
        /\ \A f \in DOMAIN held[last.photo_id].photo :
              last.photo[f] = held[last.photo_id].photo[f]

\* The photo with every optional field present was serialized and read
\* back; its serialized form differs from it.
C25_Witness ==
    /\ last.op = "from_dict"
    /\ held[last.photo_id].photo = SamplePhoto([k \in OptionalGroups |-> TRUE])
    /\ last.data.taken_date = IsoString(1)
    /\ last.data.updated_at = IsoString(1)

\* Year and month (1..12) of the date a photo is filed under.
FiledYear(photo) == MonthIndex(PhotoDate(photo)) \div MonthsPerYear

FiledMonth(photo) == (MonthIndex(PhotoDate(photo)) % MonthsPerYear) + 1

\* C26: get_metadata_file_path depends only on photo_id and the year and
\* month of taken_date (created_at when taken_date is absent): the path is
\* photos/<year>/<two-digit month>/<photo_id>.json, two photos with the same
\* year and month get the same directory, and different photo_ids get
\* different file names.
C26_PathFromDateAndId ==
    (last.op = "get_metadata_file_path") =>
        LET a == held[1].photo
            b == held[2].photo
            pa == last.paths[1]
            pb == last.paths[2]
        IN  /\ pa.year = FiledYear(a)
            /\ Len(pa.month) = 2
            /\ 10 * pa.month[1] + pa.month[2] = FiledMonth(a)
            /\ pa.month[1] \in 0..9 /\ pa.month[2] \in 0..9
            /\ pa.photo_id = a.photo_id
            /\ (FiledYear(a) = FiledYear(b) /\ FiledMonth(a) = FiledMonth(b))
                  => (pa.year = pb.year /\ pa.month = pb.month)
            /\ a.photo_id # b.photo_id => pa.photo_id # pb.photo_id
            /\ ( /\ a.photo_id = b.photo_id
                 /\ FiledYear(a) = FiledYear(b)
                 /\ FiledMonth(a) = FiledMonth(b) ) => pa = pb

\* Two photos with different ids, different content and creation times and
\* taken_dates on different days of one October got the same directory with
\* a two-digit month and different file names.
C26_Witness ==
    /\ last.op = "get_metadata_file_path"
    /\ held[1].photo.photo_id # held[2].photo.photo_id
    /\ held[1].photo.created_at # held[2].photo.created_at
    /\ held[1].photo.taken_date.kind = "datetime"
    /\ held[2].photo.taken_date.kind = "datetime"
    /\ held[1].photo.taken_date # held[2].photo.taken_date
    /\ last.paths[1].month = <<1, 0>>
    /\ last.paths[2].month = <<1, 0>>
    /\ last.paths[1].year = last.paths[2].year
    /\ last.paths[1] # last.paths[2]

\* C27: a save is atomic per file.  When the process dies at any point
\* during save_photo, the photo's metadata file is absent or as it was before
\* the save, or it is completely written; it is never empty or half-written.
C27_SaveIsAtomic ==
    (last.op = "crash") =>
        LET path == get_metadata_file_path(last.photo)
        IN  \/ path \notin DOMAIN files /\ path \notin DOMAIN last.files
            \/ /\ path \in DOMAIN files
               /\ path \in DOMAIN last.files
               /\ files[path] = last.files[path]
            \/ /\ path \in DOMAIN files
               /\ files[path] = to_dict(last.photo)

\* C28: the visibility discrepancy computation yields exactly one
\* VisibilityDiscrepancy(service, current, canonical) for every service whose
\* per_service level differs from canonical and none for a service that
\* matches; run twice without a change in between it gives the same list.
C28_DiscrepanciesExact ==
    (last.op = "compute_discrepancies") =>
        LET v == held[1].photo.visibility
            d == v.discrepancies
        IN  /\ \A i \in 1..Len(d) :
                  /\ d[i].service \in DOMAIN v.per_service
                  /\ d[i] = VisibilityDiscrepancy(d[i].service,
                                v.per_service[d[i].service], v.canonical)
            /\ \A s \in DOMAIN v.per_service :
                  Cardinality({i \in 1..Len(d) : d[i].service = s})
                      = IF v.per_service[s] # v.canonical THEN 1 ELSE 0
            /\ last.index >= 2 => last.photo.visibility.discrepancies = d

\* The computation ran twice on per_service = {"google-photos": "public"}
\* with canonical = "private".
C28_Witness ==
    /\ last.op = "compute_discrepancies"
    /\ last.index = 2
    /\ held[1].photo.visibility.canonical = "private"
    /\ held[1].photo.visibility.per_service = (GooglePhotos :> "public")
    /\ held[1].photo.visibility.discrepancies =
           <<VisibilityDiscrepancy(GooglePhotos, "public", "private")>>

Detection == {"query", "find_duplicates", "get_statistics"}

\* C29: detection and reporting are side-effect-free on stored photos.
\* find_duplicates, the query helpers and get_statistics never create, modify
\* or delete a file and never change a field of a photo, and find_duplicates
\* repeated with nothing in between returns the same groups.
C29_DetectionSideEffectFree ==
    [][(nops' = nops + 1 /\ last'.op \in Detection) =>
          /\ files' = files
          /\ \A i \in DOMAIN held :
                i \in DOMAIN held' /\ held'[i].photo = held[i].photo
          /\ \A i \in DOMAIN cache \cap DOMAIN cache' :
                CacheHit(cache, TRUE) => cache'[i] = cache[i]
          /\ (last.op = "find_duplicates" /\ last'.op = "find_duplicates")
                => last'.groups = last.groups]_vars

\* C30: with no schema loaded, validate_photo returns the empty list for
\* every photo, and save_photo with validation on writes the photo and
\* returns True; the save fails only when writing the file fails, as it does
\* with validation off, never because the schema is absent.
C30_NoSchemaNeverBlocksSave ==
    ~schema =>
        /\ \A i \in DOMAIN held : validate_photo(schema, held[i].photo) = <<>>
        /\ (last.op = "save_photo" /\ last.validate) =>
              LET path == get_metadata_file_path(last.photo)
              IN  /\ validate_photo(schema, last.photo) = <<>>
                  /\ last.ok = ~last.io_error
                  /\ last.ok =>
                        /\ path \in DOMAIN files
                        /\ files[path] = to_dict(last.photo)
                  /\ ~last.ok => files = last.files /\ cache = last.cache

\* A photo that the schema would refuse was saved with validation on while
\* no schema was loaded.
C30_Witness ==
    /\ ~schema
    /\ last.op = "save_photo"
    /\ last.validate
    /\ ~last.photo.conforms
    /\ last.ok
    /\ get_metadata_file_path(last.photo) \notin DOMAIN last.files
    /\ get_metadata_file_path(last.photo) \in DOMAIN files

\* C31: while a schema is loaded every save validates against it.  No call
\* of save_photo writes to storage a photo whose serialized form violates the
\* loaded schema.
C31_EverySaveValidates ==
    (schema /\ last.op = "save_photo" /\ files # last.files) =>
        validate_photo(schema, last.photo) = <<>>

\* C32: when constructing the adapter of one selected service fails, the
\* run still scans the remaining services, and the checkpoints of the
\* services it scanned to the end are written to the sync-state file.
C32_ConstructorFailureIsolated ==
    exit = "crashed" =>
        /\ \A i \in 1..Len(selected) :
              ( /\ selected[i] \in SERVICE_ADAPTERS
                /\ ~ConstructorRaises(servicesConfig, selected[i]) ) =>
                  \E e \in Scans : e.service = selected[i]
        /\ \A e \in Completed :
              ServiceEntry(syncFile, e.service) =
                  [present |-> TRUE,
                   entry |-> [last_discovery |-> IsoString(e.time),
                              last_discovered_count |-> e.count]]

\* C33: with a --since value that cannot be parsed and without --full-scan,
\* every adapter is called with since = none, whatever last_discovery is
\* persisted for its service, and a scan that ran to its end advances the
\* service's checkpoint as any completed scan does.
C33_UnparsedSinceScansEverything ==
    (args.since = SinceGarbage /\ ~args.full_scan) =>
        /\ \A e \in Scans : e.since = NoDatetime
        /\ exit = "finished" =>
              \A e \in Completed :
                  ServiceEntry(syncFile, e.service) =
                      [present |-> TRUE,
                       entry |-> [last_discovery |-> IsoString(e.time),
                                  last_discovered_count |-> e.count]]

\* A service with a persisted checkpoint was scanned from the beginning
\* under an unparseable --since, and its checkpoint moved.
C33_Witness ==
    /\ args.since = SinceGarbage
    /\ ~args.full_scan
    /\ exit = "finished"
    /\ \E e \in Completed :
          /\ LastDiscoveryStr(syncAtStart.data, e.service).kind = "iso"
          /\ e.since = NoDatetime
          /\ e.planned > 0
          /\ ServiceEntry(syncFile, e.service)
                 # ServiceEntry(syncAtStart, e.service)

\* C34: a discovery run changes in the sync-state only the last_discovery
\* and last_discovered_count of the services that completed their scan and
\* the top-level last_discovery.  The entries of all other services and the
\* keys last_sync, total_photos and pending_conflicts stay as they were.
C34_SyncStateFrame ==
    LET before == syncAtStart.data
        after == syncFile.data
        completed == {e.service : e \in Completed}
    IN  /\ after.other_keys = before.other_keys
        /\ \A s \in DOMAIN before.services \ completed :
              /\ s \in DOMAIN after.services
              /\ after.services[s] = before.services[s]
        /\ DOMAIN after.services \subseteq DOMAIN before.services \cup completed
        /\ ~written => syncFile = syncAtStart

\* A run wrote the file: one service's checkpoint moved while another
\* service's entry and the three other keys were in the file before.
C34_Witness ==
    /\ exit = "finished"
    /\ written
    /\ syncAtStart.data.other_keys = OtherKeys
    /\ \E s \in DOMAIN syncAtStart.data.services, e \in Completed :
          /\ s \notin {x.service : x \in Completed}
          /\ e.service \in DOMAIN syncAtStart.data.services
          /\ syncFile.data.services[e.service]
                 # syncAtStart.data.services[e.service]

\* C35: cache and disk never diverge.  After any sequence of repository
\* operations and Photo mutator calls (no file damaged from outside), every
\* photo_id in the cache has a backing file in storage, and the photo that
\* load_photo(photo_id) returns equals the record stored in that file.
C35_CacheMatchesDisk ==
    (ReadablePaths(files) = DOMAIN files) =>
        \A photo_id \in DOMAIN cache :
            /\ PathsOf(files, photo_id) # {}
            /\ \A r \in LoadPhotoNow(photo_id) :
                  /\ r.found
                  /\ \E f \in PathsOf(files, photo_id) :
                        r.photo = from_dict(files[f])

\* C36: after any sequence of save_photo, metadata changes and delete_photo
\* calls, the collection returned by load_all_photos never contains two
\* photos with the same photo_id, and its length equals the number of entries
\* in the cache.
C36_LoadAllOnePhotoPerId ==
    (last.op = "load_all_photos" /\ ReadablePaths(files) = DOMAIN files) =>
        /\ \A p, q \in last.photos : p.photo_id = q.photo_id => p = q
        /\ Cardinality(last.photos) = Cardinality(DOMAIN cache)

\* C37: across any sequence of discovery runs and a clock that does not go
\* back, a service's persisted last_discovery never moves backwards, and the
\* since value of a default run is the last_discovery written by the most
\* recent run in which that service completed.
C37_CheckpointsOnlyForward ==
    /\ \A s \in ServiceNames :
          LET old == LastDiscoveryStr(syncAtStart.data, s)
              new == LastDiscoveryStr(syncFile.data, s)
          IN  old.kind = "iso" => (new.kind = "iso" /\ new.t >= old.t)
    /\ \A e \in Scans :
          ( /\ args.since = SinceAbsent
            /\ ~args.full_scan
            /\ e.service \in DOMAIN completedAt ) =>
              e.since = Datetime(completedAt[e.service])

\* C38: whenever a photo's processing_state is RESOLVED or REPLICATED,
\* has_unresolved_conflicts() is false for it: no photo is in RESOLVED while
\* one of its conflicts still has resolution_required = true.
C38_ResolvedMeansNoOpenConflict ==
    \A i \in DOMAIN held :
        held[i].photo.processing_state \in {"resolved", "replicated"}
            => ~has_unresolved_conflicts(held[i].photo)

\* C39: for every photo produced by discovery, after any later sequence of
\* add_service_instance and remove_service_instance calls, a non-empty
\* canonical_source "<service>:<id>" names a service that is present in
\* instances and whose instance id is <id>.
C39_CanonicalSourceHasInstance ==
    \A i \in DOMAIN held :
        LET photo == held[i].photo
        IN  photo.canonical_source # <<>> =>
                /\ photo.canonical_source[1] \in DOMAIN photo.instances
                /\ photo.instances[photo.canonical_source[1]].id
                       = photo.canonical_source[2]

====
